---- MODULE Spec2Model ----
(***************************************************************************)
(* Model of the db-migrator planning and execution engine: the Version     *)
(* value type, the service registry, reconciliation of the catalog with    *)
(* the persisted history, the forward planner and the Migrate loop with    *)
(* dependency validation.                                                  *)
(*                                                                         *)
(* Every operation of the manager starts with Lock and unlocks the mutex   *)
(* when it returns.  A Migrate call is Lock, MigrateBegin (.. plan), one   *)
(* MigrateStep per loop iteration and MigrateReturn (plan empty); a        *)
(* Downgrade call likewise; the other operations are Lock and one step.    *)
(***************************************************************************)
EXTENDS Integers, Sequences, FiniteSets, TLC

VARIABLES
    services,   \* MigrationManager.services: name -> ServiceInfo
    store,      \* per service: the version table, the migrations table, user data
    call,       \* the Migrate call in flight: plan and savedMigrations
    host,       \* which host program (set of declared migrations) is running
    conns,      \* connections obtained from connect hooks during the current call
    trace,      \* what the current (or last) call did: executed ids, plan, result
    prev,       \* the call that returned immediately before, when nothing happened since
    mutex,      \* MigrationManager.mutex: TRUE while it is locked
    pc,         \* per goroutine of the host: the manager operation it is inside
    fulfillment, \* what the last CheckFulfillment call returned
    versionCase \* Versions and a version string, and what models.Version made of them

vars == <<services, store, call, host, conns, trace, prev, mutex, pc, fulfillment,
          versionCase>>

----------------------------------------------------------------------------
(* Bounds of the model *)

\* number of externally caused changes of a store's user data
MaxMutations == 1

ServiceNames == {"s1", "s2"}

\* the goroutines of a host program that call the manager
Goroutines == {"g1", "g2"}

----------------------------------------------------------------------------
(* models.Version *)

Version(a, b, c, d) == [Major |-> a, Minor |-> b, Patch |-> c, PreRelease |-> d]

ZeroVersion == Version(0, 0, 0, 0)

Equals(v, version) == v = version

\* a MoreThan that looks at Patch before Minor
MoreThanPatchFirst(v, version) ==
    IF v.Major > version.Major THEN TRUE
    ELSE IF v.Major < version.Major THEN FALSE
    ELSE IF v.Patch > version.Patch THEN TRUE
    ELSE IF v.Patch < version.Patch THEN FALSE
    ELSE IF v.Minor > version.Minor THEN TRUE
    ELSE IF v.Minor < version.Minor THEN FALSE
    ELSE IF v.PreRelease > version.PreRelease THEN TRUE
    ELSE FALSE

MoreThan(v, version) ==
    IF v.Major > version.Major THEN TRUE
    ELSE IF v.Major < version.Major THEN FALSE
    ELSE IF v.Minor > version.Minor THEN TRUE
    ELSE IF v.Minor < version.Minor THEN FALSE
    ELSE IF v.Patch > version.Patch THEN TRUE
    ELSE IF v.Patch < version.Patch THEN FALSE
    ELSE IF v.PreRelease > version.PreRelease THEN TRUE
    ELSE FALSE

MoreOrEqual(v, version) == MoreThan(v, version) \/ Equals(v, version)

LessThan(v, version) == ~MoreOrEqual(v, version)

LessOrEqual(v, version) == ~MoreThan(v, version)

\* A version string is modelled after strings.Split(versionString, "."): the
\* non-empty sequence of its dot separated components, each component the
\* sequence of its characters (the empty string is the one empty component).
DigitChars == <<"0", "1", "2", "3", "4", "5", "6", "7", "8", "9">>

IsDigit(ch) == \E d \in 1..10 : DigitChars[d] = ch

DigitValue(ch) == (CHOOSE d \in 1..10 : DigitChars[d] = ch) - 1

RECURSIVE FormatUintReversed(_)
\* the decimal digits of a natural number, lowest first
FormatUintReversed(n) ==
    IF n < 10 THEN <<DigitChars[n + 1]>>
    ELSE <<DigitChars[(n % 10) + 1]>> \o FormatUintReversed(n \div 10)

RECURSIVE FormatUint(_)
\* the decimal digits of a natural number, no leading zero
FormatUint(n) ==
    IF n < 10 THEN <<DigitChars[n + 1]>>
    ELSE FormatUint(n \div 10) \o <<DigitChars[(n % 10) + 1]>>

\* the verb %d of fmt.Sprintf
Num(n) == IF n < 0 THEN <<"-">> \o FormatUint(-n) ELSE FormatUint(n)

\* a component that is no integer
Junk == <<"x">>

String(v) == <<Num(v.Major), Num(v.Minor), Num(v.Patch), Num(v.PreRelease)>>

RECURSIVE ParseUint(_, _)
\* the digit loop of strconv.Atoi
ParseUint(digits, n) ==
    IF digits = <<>> THEN n
    ELSE ParseUint(Tail(digits), n * 10 + DigitValue(Head(digits)))

\* strconv.Atoi with its error dropped: an optional sign, then one or more
\* decimal digits; 0 for every other text
Atoi(c) ==
    LET signed == c # <<>> /\ c[1] \in {"+", "-"}
        digits == IF signed THEN Tail(c) ELSE c
    IN IF digits = <<>> \/ \E i \in 1..Len(digits) : ~IsDigit(digits[i]) THEN 0
       ELSE IF signed /\ c[1] = "-" THEN 0 - ParseUint(digits, 0)
       ELSE ParseUint(digits, 0)

ParseVersion(versionString) ==
    IF Len(versionString) # 4
    THEN [err |-> TRUE, version |-> ZeroVersion]
    ELSE [err |-> FALSE,
          version |-> Version(Atoi(versionString[1]), Atoi(versionString[2]),
                              Atoi(versionString[3]), Atoi(versionString[4]))]

----------------------------------------------------------------------------
(* Migration catalog entries *)

TypeBaseline == "baseline"
TypeVersioned == "versioned"
TypeRepeatable == "repeatable"

StateSuccess == "success"
StateFailure == "failure"
StateUndone == "undone"
StateRegistered == "registered"
StateSkipped == "skipped"
StateNotFound == "not found"

DbDependency(name, version, strict) ==
    [Name |-> name, Version |-> version, Strict |-> strict]

\* Up / UpF: TRUE when the inline statement is non-empty / the callback is non-nil;
\* Down / DownF likewise for the reverse action.
\* CheckSum: "nil" or "fn" (a function of the store's user data).
\* Writes: the values the forward action may leave in the store's user data.
Migration(type, version) ==
    [MigrationType |-> type, Version |-> version,
     IsTransactional |-> TRUE, IsAllowFailure |-> FALSE,
     Up |-> TRUE, UpF |-> FALSE, Down |-> TRUE, DownF |-> FALSE,
     CheckSum |-> "nil", Identifier |-> <<>>, RepeatUnconditional |-> FALSE,
     Dependency |-> <<>>, Writes |-> {}]

\* fnv32a(version.String() + type), modelled as the pair it hashes
getMigrationIdentifier(version, migrationType) == <<String(version), migrationType>>

----------------------------------------------------------------------------
(* Sorting *)

\* the less functions handed to sort.SliceStable
Less(order, a, b) ==
    CASE order = "versionAsc" -> MoreThan(b.Version, a.Version)
      [] order = "versionDesc" -> MoreThan(a.Version, b.Version)
      [] order = "rankAsc" -> a.Rank < b.Rank
      [] order = "rankDesc" -> a.Rank > b.Rank

RECURSIVE InsertStable(_, _, _)
\* x goes before the first element it is less than, after all others
InsertStable(sorted, x, order) ==
    IF sorted = <<>> THEN <<x>>
    ELSE IF Less(order, x, sorted[1]) THEN <<x>> \o sorted
    ELSE <<sorted[1]>> \o InsertStable(Tail(sorted), x, order)

RECURSIVE SliceStable(_, _)
\* sort.SliceStable
SliceStable(s, order) ==
    IF s = <<>> THEN <<>>
    ELSE InsertStable(SliceStable(SubSeq(s, 1, Len(s) - 1), order), s[Len(s)], order)

----------------------------------------------------------------------------
(* The repository adapter: the version table and the migrations table *)

EmptyStore ==
    [versionTable |-> FALSE, migrationsTable |-> FALSE,
     version |-> <<>>, migrations |-> <<>>, data |-> "1", mutations |-> 0]

HasVersionTable(db) == db.versionTable

HasMigrationsTable(db) == db.migrationsTable

CreateVersionTable(db) == [db EXCEPT !.versionTable = TRUE]

CreateMigrationsTable(db) == [db EXCEPT !.migrationsTable = TRUE]

\* ErrNotFound when the table holds no row
GetVersion(db) ==
    IF db.version = <<>>
    THEN [err |-> TRUE, version |-> ZeroVersion]
    ELSE [err |-> FALSE, version |-> db.version[1]]

\* insert the single row, or update it
SaveVersion(db, version) == [db EXCEPT !.version = <<version>>]

\* the persisted records ordered by rank
GetMigrationsSorted(db, order) == SliceStable(db.migrations, order)

\* the store assigns the id; a new record has an empty checksum
SaveMigration(db, request) ==
    [db EXCEPT !.migrations = Append(@,
        [Id |-> Len(db.migrations) + 1, Rank |-> request.Rank, Type |-> request.Type,
         Version |-> request.Version, Checksum |-> "", State |-> request.State])]

UpdateMigrationState(db, migrationModel, state) ==
    [db EXCEPT !.migrations[migrationModel.Id].State = state]

UpdateMigrationStateExecuted(db, migrationModel, state, checksum) ==
    [db EXCEPT !.migrations[migrationModel.Id].State = state,
               !.migrations[migrationModel.Id].Checksum = checksum]

\* migration.CheckSum(db): the default returns "", a declared one reads the store
CheckSum(migration, db) == IF migration.CheckSum = "nil" THEN "" ELSE db.data

----------------------------------------------------------------------------
(* Catalog lookups (manager.go) *)

NoService ==
    [present |-> FALSE, Db |-> 0, ConnectFunc |-> FALSE, DisconnectFunc |-> FALSE,
     TargetVersion |-> ZeroVersion, registeredMigrations |-> <<>>]

\* the keys of ServiceInfo.registeredMigrationsSet
registeredMigrationsSet(service) ==
    {service.registeredMigrations[i].Identifier :
        i \in 1..Len(service.registeredMigrations)}

findMigration(service, migrationModel) ==
    LET id == getMigrationIdentifier(migrationModel.Version, migrationModel.Type)
        hits == {i \in 1..Len(service.registeredMigrations) :
                    LET migration == service.registeredMigrations[i]
                    IN getMigrationIdentifier(ParseVersion(migration.Version).version,
                                              migration.MigrationType) = id}
    IN IF hits = {}
       THEN [ok |-> FALSE, migration |-> Migration(TypeVersioned, String(ZeroVersion))]
       ELSE [ok |-> TRUE,
             migration |-> service.registeredMigrations[
                               CHOOSE i \in hits : \A j \in hits : i <= j]]

\* the zero Version together with the error when no Version row exists
getSavedAppVersion(db) == GetVersion(db)

\* faulty variant of migrationIsNew: the saved migrations are not looked at
migrationIsNewAlways(migration, savedMigrations) == TRUE

migrationIsNew(migration, savedMigrations) ==
    \A j \in 1..Len(savedMigrations) :
        migration.Identifier #
            getMigrationIdentifier(savedMigrations[j].Version, savedMigrations[j].Type)

----------------------------------------------------------------------------
(* The forward planner *)

\* faulty variant of baselineRequired: a successful baseline is not looked for
baselineRequiredAlways(savedMigrations) == TRUE

\* faulty variant of baselineRequired: a skipped baseline is looked for
baselineRequiredUnlessSkipped(savedMigrations) ==
    \A i \in 1..Len(savedMigrations) :
        ~(savedMigrations[i].Type = TypeBaseline
          /\ savedMigrations[i].State = StateSkipped)

baselineRequired(savedMigrations) ==
    \A i \in 1..Len(savedMigrations) :
        ~(savedMigrations[i].Type = TypeBaseline
          /\ savedMigrations[i].State = StateSuccess)

\* a findRelevantBaseline that stops at the first baseline record <= target
findRelevantBaselineFirst(service, savedMigrations) ==
    LET hits == {i \in 1..Len(savedMigrations) :
                    /\ savedMigrations[i].Type = TypeBaseline
                    /\ LessOrEqual(savedMigrations[i].Version, service.TargetVersion)}
    IN IF hits = {}
       THEN [ok |-> FALSE, i |-> 0]
       ELSE [ok |-> TRUE, i |-> CHOOSE i \in hits : \A j \in hits : i <= j]

\* the last baseline record, in the order of savedMigrations, that is <= target
findRelevantBaseline(service, savedMigrations) ==
    LET hits == {i \in 1..Len(savedMigrations) :
                    /\ savedMigrations[i].Type = TypeBaseline
                    /\ LessOrEqual(savedMigrations[i].Version, service.TargetVersion)}
    IN IF hits = {}
       THEN [ok |-> FALSE, i |-> 0]
       ELSE [ok |-> TRUE, i |-> CHOOSE i \in hits : \A j \in hits : j <= i]

\* p: the planner with the plan it is building
planMigrationsBaseline(service, p) ==
    IF ~baselineRequired(p.savedMigrations) THEN p
    ELSE LET relevantBaseline == findRelevantBaseline(service, p.savedMigrations)
         IN IF ~relevantBaseline.ok THEN p
            ELSE [p EXCEPT !.plan = <<p.savedMigrations[relevantBaseline.i]>> \o @,
                           !.baselineIsPlanned = TRUE,
                           !.plannedBaseline = p.savedMigrations[relevantBaseline.i]]

\* faulty variant of planMigrationsVersioned: a failed record is not planned again
planMigrationsVersionedSkipsFailure(service, db, p) ==
    LET sorted == SliceStable(p.savedMigrations, "versionAsc")
        version == getSavedAppVersion(db).version
        Planned(migrationModel) ==
            /\ migrationModel.Type = TypeVersioned
            /\ migrationModel.State # StateSuccess
            /\ migrationModel.State # StateSkipped
            /\ migrationModel.State # StateFailure
            /\ ~MoreThan(migrationModel.Version, service.TargetVersion)
            /\ ~LessOrEqual(migrationModel.Version, version)
            /\ ~(p.baselineIsPlanned
                 /\ MoreThan(p.plannedBaseline.Version, migrationModel.Version))
    IN [p EXCEPT !.savedMigrations = sorted,
                 !.plan = @ \o SelectSeq(sorted, Planned)]

\* a planMigrationsVersioned that does not look at the planned baseline
planMigrationsVersionedBelowBaseline(service, db, p) ==
    LET sorted == SliceStable(p.savedMigrations, "versionAsc")
        version == getSavedAppVersion(db).version
        Planned(migrationModel) ==
            /\ migrationModel.Type = TypeVersioned
            /\ migrationModel.State # StateSuccess
            /\ migrationModel.State # StateSkipped
            /\ ~MoreThan(migrationModel.Version, service.TargetVersion)
            /\ ~LessOrEqual(migrationModel.Version, version)
    IN [p EXCEPT !.savedMigrations = sorted,
                 !.plan = @ \o SelectSeq(sorted, Planned)]

\* faulty variant of planMigrationsVersioned: the records are taken in descending
\* order of Version
planMigrationsVersionedDescending(service, db, p) ==
    LET sorted == SliceStable(p.savedMigrations, "versionDesc")
        version == getSavedAppVersion(db).version
        Planned(migrationModel) ==
            /\ migrationModel.Type = TypeVersioned
            /\ migrationModel.State # StateSuccess
            /\ migrationModel.State # StateSkipped
            /\ ~MoreThan(migrationModel.Version, service.TargetVersion)
            /\ ~LessOrEqual(migrationModel.Version, version)
            /\ ~(p.baselineIsPlanned
                 /\ MoreThan(p.plannedBaseline.Version, migrationModel.Version))
    IN [p EXCEPT !.savedMigrations = sorted,
                 !.plan = @ \o SelectSeq(sorted, Planned)]

planMigrationsVersioned(service, db, p) ==
    LET sorted == SliceStable(p.savedMigrations, "versionAsc")
        version == getSavedAppVersion(db).version
        Planned(migrationModel) ==
            /\ migrationModel.Type = TypeVersioned
            /\ migrationModel.State # StateSuccess
            /\ migrationModel.State # StateSkipped
            /\ ~MoreThan(migrationModel.Version, service.TargetVersion)
            /\ ~LessOrEqual(migrationModel.Version, version)
            /\ ~(p.baselineIsPlanned
                 /\ MoreThan(p.plannedBaseline.Version, migrationModel.Version))
    IN [p EXCEPT !.savedMigrations = sorted,
                 !.plan = @ \o SelectSeq(sorted, Planned)]

\* faulty variant of planMigrationsRepeatable: the persisted checksum is not compared
planMigrationsRepeatableUngated(service, db, p) ==
    LET sorted == SliceStable(p.savedMigrations, "versionAsc")
        Planned(migrationModel) == migrationModel.Type = TypeRepeatable
    IN [p EXCEPT !.savedMigrations = sorted,
                 !.plan = @ \o SelectSeq(sorted, Planned)]

planMigrationsRepeatable(service, db, p) ==
    LET sorted == SliceStable(p.savedMigrations, "versionAsc")
        Planned(migrationModel) ==
            /\ migrationModel.Type = TypeRepeatable
            /\ LET found == findMigration(service, migrationModel)
               IN \/ ~found.ok
                  \/ ~(~found.migration.RepeatUnconditional
                       /\ migrationModel.Checksum = CheckSum(found.migration, db))
    IN [p EXCEPT !.savedMigrations = sorted,
                 !.plan = @ \o SelectSeq(sorted, Planned)]

\* faulty variant of MakePlan: the repeatable pass runs before the versioned pass
MakePlanRepeatableFirst(service, db, savedMigrations) ==
    LET p0 == [savedMigrations |-> savedMigrations, plan |-> <<>>,
               baselineIsPlanned |-> FALSE, plannedBaseline |-> <<>>]
        p1 == planMigrationsBaseline(service, p0)
        p2 == planMigrationsRepeatable(service, db, p1)
    IN planMigrationsVersioned(service, db, p2)

\* the plan, and savedMigrations as the in-place sorts leave the caller's slice
MakePlan(service, db, savedMigrations) ==
    LET p0 == [savedMigrations |-> savedMigrations, plan |-> <<>>,
               baselineIsPlanned |-> FALSE, plannedBaseline |-> <<>>]
        p1 == planMigrationsBaseline(service, p0)
        p2 == planMigrationsVersioned(service, db, p1)
    IN planMigrationsRepeatable(service, db, p2)

----------------------------------------------------------------------------
(* The downgrade planner *)

\* faulty variant of downgradePlanner.MakePlan: the records in ascending order
downgradePlannerMakePlanAscending(service, db, savedMigrations) ==
    LET sorted == SliceStable(savedMigrations, "versionAsc")
        version == getSavedAppVersion(db).version
        Planned(migrationModel) ==
            /\ migrationModel.Type = TypeVersioned
            /\ ~MoreThan(migrationModel.Version, version)
            /\ ~LessOrEqual(migrationModel.Version, service.TargetVersion)
            /\ migrationModel.State # StateUndone
    IN SelectSeq(sorted, Planned)

\* downgradePlanner.MakePlan: the plan, in descending order of Version
downgradePlannerMakePlan(service, db, savedMigrations) ==
    LET sorted == SliceStable(savedMigrations, "versionDesc")
        version == getSavedAppVersion(db).version
        Planned(migrationModel) ==
            /\ migrationModel.Type = TypeVersioned
            /\ ~MoreThan(migrationModel.Version, version)
            /\ ~LessOrEqual(migrationModel.Version, service.TargetVersion)
            /\ migrationModel.State # StateUndone
    IN SelectSeq(sorted, Planned)

----------------------------------------------------------------------------
(* Reconciliation (saveNewMigrations) *)

\* faulty variant of the loop over the saved migrations: the rank of the first
\* saved migration is taken for the maximum
maxRankOfFirst(savedMigrations) ==
    IF savedMigrations = <<>> THEN 0 ELSE savedMigrations[1].Rank

RECURSIVE maxRankOf(_)
maxRankOf(savedMigrations) ==
    IF savedMigrations = <<>> THEN 0
    ELSE LET rest == maxRankOf(Tail(savedMigrations))
         IN IF savedMigrations[1].Rank > rest THEN savedMigrations[1].Rank ELSE rest

\* the requests for the catalog entries that have no persisted record yet
newMigrationRequests(service, savedMigrations) ==
    LET IsNew(migration) == migrationIsNew(migration, savedMigrations)
        fresh == SelectSeq(service.registeredMigrations, IsNew)
    IN [i \in 1..Len(fresh) |->
           [Type |-> fresh[i].MigrationType,
            Version |-> ParseVersion(fresh[i].Version).version,
            State |-> StateRegistered, Rank |-> 0]]

\* faulty variant of lowerVersionThanExisting: the comparison the wrong way round
lowerVersionThanExistingReversed(newMigrations, savedMigrations) ==
    \E i \in 1..Len(newMigrations) : \E j \in 1..Len(savedMigrations) :
        MoreThan(newMigrations[i].Version, savedMigrations[j].Version)

\* a new migration below an already saved one is refused
lowerVersionThanExisting(newMigrations, savedMigrations) ==
    \E i \in 1..Len(newMigrations) : \E j \in 1..Len(savedMigrations) :
        MoreThan(savedMigrations[j].Version, newMigrations[i].Version)

RECURSIVE saveAll(_, _, _, _)
\* the body of the transaction: rank and save every new migration
saveAll(db, newMigrations, i, maxRank) ==
    IF i > Len(newMigrations) THEN db
    ELSE saveAll(SaveMigration(db, [newMigrations[i] EXCEPT !.Rank = maxRank + i]),
                 newMigrations, i + 1, maxRank)

\* faulty variant of the transaction: the records saved before the failure stay
saveTransactionPartial(db, newMigrations, maxRank, failAt) ==
    IF failAt \in 1..Len(newMigrations)
    THEN [err |-> TRUE,
          db |-> saveAll(db, SubSeq(newMigrations, 1, failAt - 1), 1, maxRank)]
    ELSE [err |-> FALSE, db |-> saveAll(db, newMigrations, 1, maxRank)]

\* service.Db.Transaction around the saves. failAt: the position of the new
\* migration whose SaveMigration returns an error (0: none does); the error leaves
\* the transaction, which is rolled back
saveTransaction(db, newMigrations, maxRank, failAt) ==
    IF failAt \in 1..Len(newMigrations)
    THEN [err |-> TRUE, db |-> db]
    ELSE [err |-> FALSE, db |-> saveAll(db, newMigrations, 1, maxRank)]

saveNewMigrations(service, db, failAt) ==
    LET savedMigrations == GetMigrationsSorted(db, "rankAsc")
        maxRank == maxRankOf(savedMigrations)
        newMigrations == newMigrationRequests(service, savedMigrations)
    IN IF lowerVersionThanExisting(newMigrations, savedMigrations)
       THEN [err |-> TRUE, reason |-> "lower version", db |-> db,
             savedMigrations |-> <<>>]
       ELSE LET sorted == SliceStable(newMigrations, "versionAsc")
                tx == saveTransaction(db, sorted, maxRank, failAt)
                after == tx.db
            IN IF tx.err
               THEN [err |-> TRUE, reason |-> "save failed", db |-> after,
                     savedMigrations |-> <<>>]
               ELSE [err |-> FALSE, reason |-> "", db |-> after,
                     savedMigrations |-> savedMigrations \o
                         SubSeq(after.migrations, Len(db.migrations) + 1,
                                Len(after.migrations))]

initSystemTables(db) ==
    LET d1 == IF ~HasVersionTable(db) THEN CreateVersionTable(db) ELSE db
    IN IF ~HasMigrationsTable(db) THEN CreateMigrationsTable(d1) ELSE d1

----------------------------------------------------------------------------
(* Connections handed out by the connect hooks *)

\* ConnectFunc(): a fresh connection of service name; its handle is its index
Connect(cn, name) == Append(cn, [svc |-> name, closed |-> 0])

\* DisconnectFunc(db)
Disconnect(cn, db) ==
    IF db \in 1..Len(cn) THEN [cn EXCEPT ![db].closed = @ + 1] ELSE cn

----------------------------------------------------------------------------
(* executeMigration *)

actionModalityInvalid(migration) ==
    \/ ~migration.Up /\ ~migration.UpF
    \/ migration.Up /\ migration.UpF

\* faulty variant of dependencyVersionInvalid: Strict is not looked at
dependencyVersionInvalidMinimumOnly(dependency, version, dependencyVersion) ==
    LessThan(version, dependencyVersion)

\* the check of the live version of a dependency against the declared one
dependencyVersionInvalid(dependency, version, dependencyVersion) ==
    IF dependency.Strict /\ ~Equals(version, dependencyVersion) THEN TRUE
    ELSE LessThan(version, dependencyVersion)

\* one round of the loop over migration.Dependency
\* st: [services, conns, depsServices, err]
validateDependency(dependency, st, stores) ==
    LET depsService == st.services[dependency.Name]
    IN IF ~depsService.present \/ ~depsService.ConnectFunc
       THEN [st EXCEPT !.err = TRUE]
       ELSE LET cn == Connect(st.conns, dependency.Name)
                connected ==
                    [st EXCEPT !.conns = cn,
                               !.services[dependency.Name].Db = Len(cn),
                               !.depsServices = @ \cup {dependency.Name}]
                db == stores[dependency.Name]
                version == GetVersion(db)
                dependencyVersion == ParseVersion(dependency.Version)
            IN IF ~HasVersionTable(db) THEN [connected EXCEPT !.err = TRUE]
               ELSE IF version.err THEN [connected EXCEPT !.err = TRUE]
               ELSE IF Equals(version.version, ZeroVersion)
                    THEN [connected EXCEPT !.err = TRUE]
               ELSE IF dependencyVersion.err THEN [connected EXCEPT !.err = TRUE]
               ELSE IF dependencyVersionInvalid(dependency, version.version,
                                                dependencyVersion.version)
                    THEN [connected EXCEPT !.err = TRUE]
               ELSE connected

\* a loop that validates only the first dependency
validateDependenciesFirstOnly(dependencies, st, stores) ==
    IF dependencies = <<>> THEN st
    ELSE validateDependency(Head(dependencies), st, stores)

RECURSIVE validateDependencies(_, _, _)
validateDependencies(dependencies, st, stores) ==
    IF dependencies = <<>> \/ st.err THEN st
    ELSE validateDependencies(Tail(dependencies),
                              validateDependency(Head(dependencies), st, stores),
                              stores)

RECURSIVE disconnectAll(_, _, _)
\* the deferred loop over depsServices
disconnectAll(cn, svcs, names) ==
    IF names = {} THEN cn
    ELSE LET n == CHOOSE n \in names : TRUE
         IN disconnectAll(Disconnect(cn, svcs[n].Db), svcs, names \ {n})

\* faulty variant of executeMigration: the declared Version of the first dependency
\* is written to the store of that dependency
executeMigrationSaving(serviceName, svcs, stores, cn, migration, actionOk, data) ==
    IF actionModalityInvalid(migration)
    THEN [err |-> TRUE, validated |-> FALSE, invoked |-> FALSE,
          services |-> svcs, conns |-> cn, stores |-> stores]
    ELSE LET st == validateDependencies(migration.Dependency,
                       [services |-> svcs, conns |-> cn, depsServices |-> {},
                        err |-> FALSE], stores)
             released == disconnectAll(st.conns, st.services, st.depsServices)
             written ==
                 IF migration.Dependency = <<>> THEN stores
                 ELSE [stores EXCEPT ![Head(migration.Dependency).Name] =
                          SaveVersion(@,
                              ParseVersion(Head(migration.Dependency).Version).version)]
         IN IF st.err
            THEN [err |-> TRUE, validated |-> FALSE, invoked |-> FALSE,
                  services |-> st.services, conns |-> released, stores |-> written]
            ELSE [err |-> ~actionOk, validated |-> TRUE, invoked |-> TRUE,
                  services |-> st.services, conns |-> released,
                  stores |-> IF migration.IsTransactional /\ ~actionOk
                             THEN written
                             ELSE [written EXCEPT ![serviceName].data = data]]

\* actionOk, data: whether the forward action succeeds, and the user data it leaves.
\* A failed transactional action is rolled back.
executeMigration(serviceName, svcs, stores, cn, migration, actionOk, data) ==
    IF actionModalityInvalid(migration)
    THEN [err |-> TRUE, validated |-> FALSE, invoked |-> FALSE,
          services |-> svcs, conns |-> cn, stores |-> stores]
    ELSE LET st == validateDependencies(migration.Dependency,
                       [services |-> svcs, conns |-> cn, depsServices |-> {},
                        err |-> FALSE], stores)
             released == disconnectAll(st.conns, st.services, st.depsServices)
         IN IF st.err
            THEN [err |-> TRUE, validated |-> FALSE, invoked |-> FALSE,
                  services |-> st.services, conns |-> released, stores |-> stores]
            ELSE [err |-> ~actionOk, validated |-> TRUE, invoked |-> TRUE,
                  services |-> st.services, conns |-> released,
                  stores |-> IF migration.IsTransactional /\ ~actionOk
                             THEN stores
                             ELSE [stores EXCEPT ![serviceName].data = data]]

----------------------------------------------------------------------------
(* saveStateOnSuccessfulMigration *)

RECURSIVE skipBefore(_, _, _, _)
\* every record in front of the baseline in savedMigrations becomes skipped
skipBefore(db, savedMigrations, i, migrationModel) ==
    IF i > Len(savedMigrations) \/ migrationModel.Id = savedMigrations[i].Id THEN db
    ELSE skipBefore(UpdateMigrationState(db, savedMigrations[i], StateSkipped),
                    savedMigrations, i + 1, migrationModel)

saveStateOnSuccessfulMigration(db, savedMigrations, migrationModel, migration) ==
    LET migrationVersion == ParseVersion(migration.Version).version
        d1 == CASE migration.MigrationType = TypeVersioned ->
                       SaveVersion(db, migrationVersion)
                []  migration.MigrationType = TypeBaseline ->
                       skipBefore(SaveVersion(db, migrationVersion),
                                  savedMigrations, 1, migrationModel)
                []  OTHER -> db
    IN UpdateMigrationStateExecuted(d1, migrationModel, StateSuccess,
                                    CheckSum(migration, d1))

\* faulty variant of allowBypassNotFound: every type may go missing
allowBypassNotFoundAnyType(migrationModel) == TRUE

allowBypassNotFound(migrationModel) == migrationModel.Type = TypeRepeatable

\* faulty variants of migrateAborts: the error is dropped; the flag is not looked at
migrateAbortsNever(err, migration) == FALSE

migrateAbortsOnAnyError(err, migration) == err

\* the loop of Migrate returns the error of executeMigration
migrateAborts(err, migration) == err /\ ~migration.IsAllowFailure

----------------------------------------------------------------------------
(* Downgrade: planning, the reverse action, the state after it *)

\* planDowngrade: reconciliation, then the downgrade planner
planDowngrade(service, db, failAt) ==
    LET saved == saveNewMigrations(service, db, failAt)
    IN IF saved.err
       THEN [err |-> TRUE, reason |-> saved.reason, db |-> saved.db, plan |-> <<>>]
       ELSE [err |-> FALSE, reason |-> "", db |-> saved.db,
             plan |-> downgradePlannerMakePlan(service, saved.db,
                                               saved.savedMigrations)]

\* faulty variant of the validation of executeDowngrade: only the type is checked
reverseActionInvalidTypeOnly(migration) ==
    migration.MigrationType # TypeVersioned

reverseActionInvalid(migration) ==
    \/ migration.MigrationType # TypeVersioned
    \/ ~migration.Down /\ ~migration.DownF

\* actionOk: whether the reverse action succeeds
executeDowngrade(migration, actionOk) ==
    IF reverseActionInvalid(migration) THEN [err |-> TRUE, invoked |-> FALSE]
    ELSE [err |-> ~actionOk, invoked |-> TRUE]

\* the Version of the record in front of the undone one among the records that
\* are not repeatable, in ascending order of Version; the zero Version if none
saveVersionDowngrade(db, migrationModel, savedMigrations) ==
    LET NotRepeatable(m) == m.Type # TypeRepeatable
        filteredMigrations ==
            SliceStable(SelectSeq(savedMigrations, NotRepeatable), "versionAsc")
        hits == {i \in 1..Len(filteredMigrations) :
                    /\ filteredMigrations[i].Type = TypeVersioned
                    /\ Equals(filteredMigrations[i].Version, migrationModel.Version)}
        versionToSave ==
            IF hits = {} THEN ZeroVersion
            ELSE LET i == CHOOSE i \in hits : \A j \in hits : i <= j
                 IN IF i # 1 THEN filteredMigrations[i - 1].Version ELSE ZeroVersion
    IN SaveVersion(db, versionToSave)

saveStateAfterDowngrading(db, savedMigrations, migrationModel, migration) ==
    saveVersionDowngrade(
        UpdateMigrationStateExecuted(db, migrationModel, StateUndone,
                                     CheckSum(migration, db)),
        migrationModel, savedMigrations)

----------------------------------------------------------------------------
(* The host programs: the migrations and targets their source declares *)

ErrHasForthcomingMigrations == "has forthcoming migrations"
ErrHasFailedMigrations == "has failed migrations"
ErrTargetVersionNotLatest == "target version is not latest"

hasFailedMigrations(service, db) ==
    IF ~HasVersionTable(db) \/ ~HasMigrationsTable(db)
    THEN [has |-> FALSE, err |-> FALSE]
    ELSE LET savedMigrations == GetMigrationsSorted(db, "rankAsc")
         IN [has |-> \E i \in 1..Len(savedMigrations) :
                        savedMigrations[i].State = StateFailure,
             err |-> FALSE]

\* faulty variant of hasForthcomingMigrations: the catalog is not looked at
hasForthcomingMigrationsSavedOnly(service, db) ==
    IF ~HasVersionTable(db) \/ ~HasMigrationsTable(db)
    THEN [has |-> TRUE, err |-> FALSE]
    ELSE LET savedVersion == getSavedAppVersion(db)
             savedMigrations == GetMigrationsSorted(db, "rankAsc")
         IN IF savedVersion.err THEN [has |-> FALSE, err |-> TRUE]
            ELSE [has |-> \E i \in 1..Len(savedMigrations) :
                             /\ MoreOrEqual(savedMigrations[i].Version,
                                            savedVersion.version)
                             /\ savedMigrations[i].State # StateSuccess,
                  err |-> FALSE]

hasForthcomingMigrations(service, db) ==
    IF ~HasVersionTable(db) \/ ~HasMigrationsTable(db)
    THEN [has |-> TRUE, err |-> FALSE]
    ELSE LET savedVersion == getSavedAppVersion(db)
             savedMigrations == GetMigrationsSorted(db, "rankAsc")
         IN IF savedVersion.err THEN [has |-> FALSE, err |-> TRUE]
            ELSE [has |-> \/ (\E i \in 1..Len(savedMigrations) :
                                /\ MoreOrEqual(savedMigrations[i].Version,
                                               savedVersion.version)
                                /\ savedMigrations[i].State # StateSuccess)
                          \/ (\E k \in 1..Len(service.registeredMigrations) :
                                migrationIsNew(service.registeredMigrations[k],
                                               savedMigrations)),
                  err |-> FALSE]

targetVersionNotLatest(service, db) ==
    IF ~HasVersionTable(db) \/ ~HasMigrationsTable(db)
    THEN [has |-> FALSE, err |-> FALSE]
    ELSE LET savedMigrations == GetMigrationsSorted(db, "rankAsc")
             registered == service.registeredMigrations
         IN IF \E i \in 1..Len(savedMigrations) :
                  ~MoreOrEqual(service.TargetVersion, savedMigrations[i].Version)
            THEN [has |-> TRUE, err |-> FALSE]
            ELSE LET stops == {i \in 1..Len(registered) :
                                \/ ParseVersion(registered[i].Version).err
                                \/ ~MoreOrEqual(service.TargetVersion,
                                       ParseVersion(registered[i].Version).version)}
                     first == CHOOSE i \in stops : \A j \in stops : i <= j
                 IN IF stops = {} THEN [has |-> FALSE, err |-> FALSE]
                    ELSE IF ParseVersion(registered[first].Version).err
                    THEN [has |-> FALSE, err |-> TRUE]
                    ELSE [has |-> TRUE, err |-> FALSE]

\* the values CheckFulfillment returns once the service is connected
checkFulfillment(service, db) ==
    LET hasForthcoming == hasForthcomingMigrations(service, db)
        hasFailed == hasFailedMigrations(service, db)
        targetNotLatest == targetVersionNotLatest(service, db)
        Result(reasonErr, ok, err) == [reasonErr |-> reasonErr, ok |-> ok, err |-> err]
    IN IF hasForthcoming.err THEN Result("nil", FALSE, TRUE)
       ELSE IF hasForthcoming.has THEN Result(ErrHasForthcomingMigrations, FALSE, FALSE)
       ELSE IF hasFailed.err THEN Result("nil", FALSE, TRUE)
       ELSE IF hasFailed.has THEN Result(ErrHasFailedMigrations, FALSE, FALSE)
       ELSE IF targetNotLatest.err THEN Result("nil", FALSE, TRUE)
       ELSE IF targetNotLatest.has THEN Result(ErrTargetVersionNotLatest, FALSE, FALSE)
       ELSE Result("nil", TRUE, FALSE)

----------------------------------------------------------------------------
(* Hosts *)

v0000 == <<<<"0">>, <<"0">>, <<"0">>, <<"0">>>>
v1000 == <<<<"1">>, <<"0">>, <<"0">>, <<"0">>>>
v1001 == <<<<"1">>, <<"0">>, <<"0">>, <<"1">>>>
v1010 == <<<<"1">>, <<"0">>, <<"1">>, <<"0">>>>
v1100 == <<<<"1">>, <<"1">>, <<"0">>, <<"0">>>>

\* migrations: the argument lists of the program's Register calls
\* targets: the target versions it hands to RegisterService
\* data: the values the store's user data may be changed to from outside
HostBaseline ==
    [migrations |-> [s1 |-> {<<Migration(TypeVersioned, v1000),
                               [Migration(TypeVersioned, v1001)
                                   EXCEPT !.IsAllowFailure = TRUE],
                               Migration(TypeBaseline, v1001)>>},
                     s2 |-> {}],
     targets |-> [s1 |-> {v1100}, s2 |-> {}],
     data |-> [s1 |-> {}, s2 |-> {}]]

\* a program that registers in steps, in no fixed order
HostStepwise ==
    [migrations |-> [s1 |-> {<<[Migration(TypeVersioned, v1000)
                                   EXCEPT !.IsAllowFailure = TRUE],
                               Migration(TypeVersioned, v1001)>>,
                             <<Migration(TypeBaseline, v1001)>>},
                     s2 |-> {}],
     targets |-> [s1 |-> {v1000, v1100}, s2 |-> {}],
     data |-> [s1 |-> {}, s2 |-> {}]]

HostRepeatable ==
    [migrations |-> [s1 |-> {<<[Migration(TypeRepeatable, v1000)
                                   EXCEPT !.CheckSum = "fn", !.Writes = {"1", "2"},
                                          !.IsTransactional = FALSE],
                               Migration(TypeVersioned, v1000)>>},
                     s2 |-> {}],
     targets |-> [s1 |-> {v1100}, s2 |-> {}],
     data |-> [s1 |-> {"1", "2"}, s2 |-> {}]]

HostUnconditional ==
    [migrations |-> [s1 |-> {<<[Migration(TypeRepeatable, v1001)
                                   EXCEPT !.RepeatUnconditional = TRUE],
                               Migration(TypeVersioned, v1000),
                               Migration(TypeRepeatable, v1100)>>},
                     s2 |-> {}],
     targets |-> [s1 |-> {v1100}, s2 |-> {}],
     data |-> [s1 |-> {}, s2 |-> {}]]

\* a later build of HostUnconditional that dropped two of its migrations
HostUnconditionalNext ==
    [migrations |-> [s1 |-> {<<[Migration(TypeRepeatable, v1100)
                                   EXCEPT !.RepeatUnconditional = TRUE]>>},
                     s2 |-> {}],
     targets |-> [s1 |-> {v1100}, s2 |-> {}],
     data |-> [s1 |-> {}, s2 |-> {}]]

HostDependency ==
    [migrations |-> [s1 |-> {<<[Migration(TypeVersioned, v1001)
                                   EXCEPT !.Dependency =
                                       <<DbDependency("s2", v1001, TRUE)>>],
                               [Migration(TypeVersioned, v1100)
                                   EXCEPT !.Dependency =
                                       <<DbDependency("s2", v1001, FALSE)>>,
                                          !.IsAllowFailure = TRUE]>>},
                     s2 |-> {<<Migration(TypeVersioned, v1000),
                               Migration(TypeVersioned, v1001),
                               Migration(TypeVersioned, v1010)>>}],
     targets |-> [s1 |-> {v1100}, s2 |-> {v1001, v1010}],
     data |-> [s1 |-> {}, s2 |-> {}]]

HostModality ==
    [migrations |-> [s1 |-> {<<[Migration(TypeVersioned, v1000)
                                   EXCEPT !.Up = FALSE, !.IsAllowFailure = TRUE],
                               [Migration(TypeVersioned, v1001)
                                   EXCEPT !.Up = FALSE, !.UpF = TRUE,
                                          !.Dependency =
                                              <<DbDependency("s2", v1000, FALSE),
                                                DbDependency("s2", v1000, TRUE)>>],
                               [Migration(TypeVersioned, v1100)
                                   EXCEPT !.UpF = TRUE]>>},
                     s2 |-> {<<Migration(TypeBaseline, v0000),
                               Migration(TypeVersioned, v1000),
                               Migration(TypeVersioned, v1001)>>}],
     targets |-> [s1 |-> {v1100}, s2 |-> {v1000, v1001}],
     data |-> [s1 |-> {}, s2 |-> {}]]

HostSelf ==
    [migrations |-> [s1 |-> {<<Migration(TypeVersioned, v1000),
                               [Migration(TypeVersioned, v1001)
                                   EXCEPT !.Dependency =
                                       <<DbDependency("s1", v1000, FALSE)>>]>>},
                     s2 |-> {}],
     targets |-> [s1 |-> {v1100}, s2 |-> {}],
     data |-> [s1 |-> {}, s2 |-> {}]]

\* a host that rolls back: three versioned entries, then a build in which
\* 1.0.0.0 has lost its reverse action and 1.0.0.1 its catalog entry
HostDowngrade ==
    [migrations |-> [s1 |-> {<<Migration(TypeVersioned, v1000),
                               Migration(TypeVersioned, v1001)>>,
                             <<Migration(TypeVersioned, v1100)>>},
                     s2 |-> {}],
     targets |-> [s1 |-> {v1100, v1000}, s2 |-> {}],
     data |-> [s1 |-> {}, s2 |-> {}],
     downgrades |-> {"s1"}]

HostDowngradeNext ==
    [migrations |-> [s1 |-> {<<[Migration(TypeVersioned, v1000)
                                   EXCEPT !.Down = FALSE],
                               [Migration(TypeVersioned, v1100)
                                   EXCEPT !.Down = FALSE, !.DownF = TRUE]>>},
                     s2 |-> {}],
     targets |-> [s1 |-> {v0000}, s2 |-> {}],
     data |-> [s1 |-> {}, s2 |-> {}],
     downgrades |-> {"s1"}]

\* a host that rolls back a history with a baseline in it
HostDowngradeBaseline ==
    [migrations |-> [s1 |-> {<<Migration(TypeVersioned, v1100),
                               [Migration(TypeRepeatable, v1010)
                                   EXCEPT !.RepeatUnconditional = TRUE],
                               Migration(TypeVersioned, v1010),
                               Migration(TypeBaseline, v1001),
                               Migration(TypeVersioned, v1000)>>},
                     s2 |-> {}],
     targets |-> [s1 |-> {v1100, v1000}, s2 |-> {}],
     data |-> [s1 |-> {}, s2 |-> {}],
     downgrades |-> {"s1"}]

\* a host that asks whether its service is fully migrated; the repeatable entry
\* is below the versioned one
HostFulfillment ==
    [migrations |-> [s1 |-> {<<Migration(TypeVersioned, v1000),
                               Migration(TypeVersioned, v1001),
                               [Migration(TypeRepeatable, v1000)
                                   EXCEPT !.RepeatUnconditional = TRUE]>>},
                     s2 |-> {}],
     targets |-> [s1 |-> {v1001, v1000}, s2 |-> {}],
     data |-> [s1 |-> {}, s2 |-> {}],
     checks |-> {"s1"}]

\* a host with two goroutines on one manager, one per service; a migration of
\* s1 depends on s2
HostConcurrent ==
    [migrations |-> [s1 |-> {<<[Migration(TypeVersioned, v1000)
                                   EXCEPT !.Dependency =
                                       <<DbDependency("s2", v1000, FALSE)>>]>>},
                     s2 |-> {<<Migration(TypeVersioned, v1000)>>}],
     targets |-> [s1 |-> {v1000}, s2 |-> {v1000}],
     data |-> [s1 |-> {}, s2 |-> {}],
     goroutines |-> [g1 |-> {"s1"}, g2 |-> {"s2"}],
     downgrades |-> {"s2"},
     checks |-> {"s2"}]

\* the host of TestMigrate: goroutine g1 repeats DB1 (service s1) and g2 repeats
\* DB2 (service s2) until Migrate returns nil; the statements of the
\* migrations succeed
HostRetry ==
    [migrations |->
        [s1 |-> {<<[Migration(TypeBaseline, v1000) EXCEPT !.Down = FALSE],
                   [Migration(TypeVersioned, v1001)
                       EXCEPT !.Down = FALSE,
                              !.Dependency = <<DbDependency("s2", v1001, FALSE)>>],
                   [Migration(TypeVersioned, v1010) EXCEPT !.Down = FALSE]>>},
         s2 |-> {<<[Migration(TypeBaseline, v1000) EXCEPT !.Down = FALSE],
                   [Migration(TypeVersioned, v1001) EXCEPT !.Down = FALSE],
                   [Migration(TypeVersioned, v1010)
                       EXCEPT !.Down = FALSE,
                              !.Dependency = <<DbDependency("s1", v1010, FALSE)>>]>>}],
     targets |-> [s1 |-> {v1010}, s2 |-> {v1010}],
     data |-> [s1 |-> {}, s2 |-> {}],
     goroutines |-> [g1 |-> {"s1"}, g2 |-> {"s2"}],
     retry |-> TRUE,
     outcomes |-> {TRUE}]

\* a program with two baselines, run towards a target between them or above both
HostBaselines ==
    [migrations |-> [s1 |-> {<<Migration(TypeBaseline, v1010),
                               Migration(TypeVersioned, v1001),
                               Migration(TypeBaseline, v1000),
                               Migration(TypeVersioned, v1010)>>},
                     s2 |-> {}],
     targets |-> [s1 |-> {v1001, v1100}, s2 |-> {}],
     data |-> [s1 |-> {}, s2 |-> {}]]

\* version strings that are not four decimal numbers
v1x00 == <<<<"1">>, <<"x">>, <<"0">>, <<"0">>>>
v100 == <<<<"1">>, <<"0">>, <<"0">>>>

\* a program that registers entries with the same Version and type more than
\* once, within one call and across calls, and hands over version strings that
\* are not four decimal numbers
HostRegistration ==
    [migrations |->
        [s1 |-> {<<Migration(TypeVersioned, v1000),
                   [Migration(TypeVersioned, v1000)
                       EXCEPT !.Up = FALSE, !.UpF = TRUE, !.IsAllowFailure = TRUE],
                   Migration(TypeBaseline, v1000)>>,
                 <<[Migration(TypeBaseline, v1000)
                       EXCEPT !.Down = FALSE, !.IsTransactional = FALSE],
                   Migration(TypeVersioned, v1001)>>,
                 <<Migration(TypeVersioned, v1x00),
                   Migration(TypeVersioned, v100),
                   Migration(TypeVersioned, v1010)>>},
         s2 |-> {}],
     targets |-> [s1 |-> {v1001, v1x00, v100}, s2 |-> {}],
     data |-> [s1 |-> {}, s2 |-> {}],
     downgrades |-> {},
     checks |-> {},
     outcomes |-> {TRUE}]

\* a host that goes down and up again: a versioned entry and, registered after
\* it, a baseline with the same Version
HostRoundTrip ==
    [migrations |-> [s1 |-> {<<Migration(TypeVersioned, v1001)>>,
                             <<Migration(TypeBaseline, v1001)>>},
                     s2 |-> {}],
     targets |-> [s1 |-> {v1000, v1001}, s2 |-> {}],
     data |-> [s1 |-> {}, s2 |-> {}],
     downgrades |-> {"s1"}]

\* a host whose store can refuse the save of a new record: reconciliation stages
\* one or two records, and the save of the first or of the second may fail
HostSaveFailure ==
    [migrations |-> [s1 |-> {<<Migration(TypeVersioned, v1000)>>,
                             <<Migration(TypeVersioned, v1001),
                               Migration(TypeVersioned, v1010)>>},
                     s2 |-> {}],
     targets |-> [s1 |-> {v1010}, s2 |-> {}],
     data |-> [s1 |-> {}, s2 |-> {}],
     downgrades |-> {"s1"},
     saveFailures |-> {0, 1, 2}]

\* the deployments: the builds of a host program in the order they are run
Deployments ==
    << <<HostBaseline, HostBaseline>>, <<HostStepwise>>, <<HostRepeatable>>,
       <<HostUnconditional, HostUnconditionalNext>>,
       <<HostDependency>>, <<HostModality>>, <<HostSelf>>,
       <<HostDowngrade, HostDowngradeNext>>, <<HostDowngradeBaseline>>,
       <<HostFulfillment>>, <<HostConcurrent>>, <<HostRetry>>,
       <<HostRegistration>>, <<HostBaselines>>, <<HostSaveFailure>>,
       <<HostRoundTrip>> >>

\* the build that runs after the given number of restarts
Build(h) == Deployments[h.deployment][h.restarts + 1]

----------------------------------------------------------------------------
(* State *)

Idle == [op |-> "idle", svc |-> "", plan |-> <<>>, savedMigrations |-> <<>>]

\* nothing is known about the call before this one
NoPrior == [op |-> "none"]

NoTrace ==
    [op |-> "none", svc |-> "", result |-> "none", reason |-> "",
     rerun |-> FALSE, first |-> "none", before |-> EmptyStore,
     planned |-> <<>>, executed |-> <<>>, swallowed |-> <<>>, step |-> <<>>,
     prior |-> NoPrior]

NoPrev == [op |-> "none", svc |-> "", result |-> "none"]

\* a goroutine that is in no operation of the manager
\* at: how many calls of its program the goroutine has completed in this round
NoCall == [op |-> "none", svc |-> "", at |-> 0]

\* the values (reasonErr, ok, err) that CheckFulfillment has returned to its
\* caller; they are kept until the next operation starts
NoFulfillment == [svc |-> "", reasonErr |-> "none", ok |-> FALSE, err |-> FALSE]

\* the operations of the manager hand no Version around outside their calls
NoVersionCase ==
    [kind |-> "none", a |-> ZeroVersion, b |-> ZeroVersion, c |-> ZeroVersion,
     versionString |-> <<>>, printed |-> <<>>,
     parsed |-> [err |-> FALSE, version |-> ZeroVersion],
     order |-> <<>>, steps |-> <<>>]

Init ==
    /\ versionCase = NoVersionCase
    /\ services = [n \in ServiceNames |-> NoService]
    /\ store = [n \in ServiceNames |-> EmptyStore]
    /\ call = Idle
    /\ host \in [deployment : 1..Len(Deployments), restarts : {0}]
    /\ conns = <<>>
    /\ trace = NoTrace
    /\ prev = NoPrev
    /\ mutex = FALSE
    /\ pc = [t \in Goroutines |-> NoCall]
    /\ fulfillment = NoFulfillment

----------------------------------------------------------------------------
(* The mutex of the manager *)

\* a field of the running build, or the default when the build does not declare it
HostField(h, field, default) ==
    IF field \in DOMAIN Build(h) THEN Build(h)[field] ELSE default

\* the calls a goroutine of a retrying host makes in one round (DB1, DB2); it
\* starts a new round until Migrate returns nil
Program == <<"registerService", "register", "migrate">>

Retries(h) == HostField(h, "retry", FALSE)

\* the position of a goroutine of the host after operation op has returned
After(h, at, op, result) ==
    IF ~Retries(h) THEN 0
    ELSE IF op = "migrate" THEN (IF result = "ok" THEN Len(Program) ELSE 0)
    ELSE at + 1

\* the operations goroutine t of the host calls on service name
Calls(h, t, name) ==
    IF name \notin HostField(h, "goroutines", [g1 |-> ServiceNames, g2 |-> {}])[t]
    THEN {}
    ELSE IF Retries(h)
    THEN (IF pc[t].at < Len(Program) THEN {Program[pc[t].at + 1]} ELSE {})
    ELSE {"migrate"}
         \cup (IF Build(h).targets[name] # {} THEN {"registerService"} ELSE {})
         \cup (IF Build(h).migrations[name] # {} THEN {"register"} ELSE {})
         \cup (IF name \in HostField(h, "downgrades", {}) THEN {"downgrade"} ELSE {})
         \cup (IF name \in HostField(h, "checks", {}) THEN {"checkFulfillment"} ELSE {})

\* faulty variant of mutexFree: Lock never waits
mutexFreeAlways(m) == TRUE

\* sync.Mutex.Lock returns only when the mutex is not locked
mutexFree(m) == ~m

\* m.mutex.Lock() at the start of operation op called by goroutine t
Lock(t, op, name) ==
    /\ UNCHANGED versionCase
    /\ pc[t].op = "none"
    /\ op \in Calls(host, t, name)
    /\ mutexFree(mutex)
    /\ mutex' = TRUE
    /\ pc' = [pc EXCEPT ![t] = [op |-> op, svc |-> name, at |-> pc[t].at]]
    /\ fulfillment' = NoFulfillment
    /\ UNCHANGED <<services, store, call, host, conns, trace, prev>>

\* some goroutine is inside operation op on service name
Inside(op, name) == \E t \in Goroutines : pc[t].op = op /\ pc[t].svc = name

\* the deferred m.mutex.Unlock() of the operation that returns
Unlock(op, name, result) ==
    \E t \in Goroutines :
        /\ pc[t].op = op /\ pc[t].svc = name
        /\ pc' = [pc EXCEPT ![t] =
                     [NoCall EXCEPT !.at = After(host, pc[t].at, op, result)]]
        /\ mutex' = FALSE

----------------------------------------------------------------------------
(* Registration (manager.go) *)

\* a RegisterService that always stores a new ServiceInfo
RegisterServiceToFresh(svcs, name, targetVersion) ==
    LET parsedTargetVersion == ParseVersion(targetVersion)
    IN IF parsedTargetVersion.err THEN svcs
       ELSE [svcs EXCEPT ![name] =
                [NoService EXCEPT !.present = TRUE,
                                  !.ConnectFunc = TRUE,
                                  !.DisconnectFunc = TRUE,
                                  !.TargetVersion = parsedTargetVersion.version]]

\* RegisterService(name, connectFunc, disconnectFunc, targetVersion)
RegisterServiceTo(svcs, name, targetVersion) ==
    LET parsedTargetVersion == ParseVersion(targetVersion)
    IN IF parsedTargetVersion.err THEN svcs
       ELSE [svcs EXCEPT ![name].present = TRUE,
                         ![name].ConnectFunc = TRUE,
                         ![name].DisconnectFunc = TRUE,
                         ![name].TargetVersion = parsedTargetVersion.version]

RegisterService(name, targetVersion) ==
    /\ UNCHANGED versionCase
    /\ call.op = "idle"
    /\ Inside("registerService", name)
    /\ services' = RegisterServiceTo(services, name, targetVersion)
    /\ LET result == IF ParseVersion(targetVersion).err THEN "err" ELSE "ok"
           \* kept for the round trips of a host that calls Downgrade: the call
           \* right before this one, when it was a Migrate or Downgrade of the
           \* service that returned nil, and the target that this call replaces
           tracked == /\ name \in HostField(host, "downgrades", {})
                      /\ prev.svc = name /\ prev.result = "ok"
                      /\ prev.op \in {"migrate", "downgrade"}
       IN /\ prev' = [svc |-> name, op |-> "registerService", result |-> result,
                       after |-> IF tracked THEN prev.op ELSE "none",
                       from |-> IF tracked THEN services[name].TargetVersion
                                ELSE ZeroVersion]
          /\ Unlock("registerService", name, result)
    /\ UNCHANGED <<store, call, host, conns, trace, fulfillment>>

\* a loop body of Register that stores every entry
registerOneAppends(service, migration) ==
    [service EXCEPT !.registeredMigrations =
        Append(@, [migration EXCEPT !.Identifier =
                      getMigrationIdentifier(ParseVersion(migration.Version).version,
                                             migration.MigrationType)])]

\* one round of the loop of Register: a duplicate identifier is dropped
registerOne(service, migration) ==
    LET identifier == getMigrationIdentifier(ParseVersion(migration.Version).version,
                                             migration.MigrationType)
    IN IF identifier \in registeredMigrationsSet(service) THEN service
       ELSE [service EXCEPT !.registeredMigrations =
                Append(@, [migration EXCEPT !.Identifier = identifier])]

RECURSIVE registerAll(_, _)
\* the loop of Register; it returns at the first version that does not parse
registerAll(service, migrationsStruct) ==
    IF migrationsStruct = <<>> THEN service
    ELSE IF ParseVersion(Head(migrationsStruct).Version).err THEN service
    ELSE registerAll(registerOne(service, Head(migrationsStruct)),
                     Tail(migrationsStruct))

\* Register returns the error of the first version that does not parse
registerFails(migrationsStruct) ==
    \E i \in 1..Len(migrationsStruct) : ParseVersion(migrationsStruct[i].Version).err

\* Register(serviceName, migrationsStruct...)
RegisterTo(svcs, serviceName, migrationsStruct) ==
    [svcs EXCEPT ![serviceName] =
        registerAll([@ EXCEPT !.present = TRUE], migrationsStruct)]

Register(serviceName, migrationsStruct) ==
    /\ UNCHANGED versionCase
    /\ call.op = "idle"
    /\ Inside("register", serviceName)
    /\ services' = RegisterTo(services, serviceName, migrationsStruct)
    /\ LET result == IF registerFails(migrationsStruct) THEN "err" ELSE "ok"
       IN /\ prev' = [svc |-> serviceName, op |-> "register", result |-> result]
          /\ Unlock("register", serviceName, result)
    /\ UNCHANGED <<store, call, host, conns, trace, fulfillment>>

\* the host process ends and a build of it starts with a new, empty manager
Restart ==
    /\ UNCHANGED versionCase
    /\ call.op = "idle"
    /\ \A t \in Goroutines : pc[t].op = "none"
    /\ host.restarts + 1 < Len(Deployments[host.deployment])
    /\ host' = [host EXCEPT !.restarts = @ + 1]
    /\ services' = [n \in ServiceNames |-> NoService]
    /\ prev' = NoPrev
    /\ fulfillment' = NoFulfillment
    /\ UNCHANGED <<store, call, conns, trace, mutex, pc>>

\* something other than the manager changes the user data of a store
MutateStore(name, data) ==
    /\ UNCHANGED versionCase
    /\ call.op = "idle"
    /\ \A t \in Goroutines : pc[t].op = "none"
    /\ store[name].mutations < MaxMutations
    /\ store[name].data # data
    /\ store' = [store EXCEPT ![name].data = data, ![name].mutations = @ + 1]
    /\ prev' = NoPrev
    /\ fulfillment' = NoFulfillment
    /\ UNCHANGED <<services, call, host, conns, trace, mutex, pc>>

----------------------------------------------------------------------------
(* Migrate (part_005) *)

\* the call returns: the deferred disconnect of service.Db runs, the mutex is freed
Return(serviceName, svcs, cn, tr, result, reason) ==
    /\ conns' = Disconnect(cn, svcs[serviceName].Db)
    /\ services' = svcs
    /\ call' = Idle
    /\ trace' = [tr EXCEPT !.result = result, !.reason = reason]
    /\ prev' = [op |-> tr.op, svc |-> serviceName, result |-> result]
    /\ Unlock(tr.op, serviceName, result)
    /\ UNCHANGED fulfillment

\* what the host did right before this call, for the calls of a round trip:
\* RegisterService(name, ...) and, before it, a Migrate(name) that returned nil.
\* target: the target of that Migrate
PriorMigrate(name) ==
    IF /\ prev.op = "registerService" /\ prev.svc = name /\ prev.result = "ok"
       /\ prev.after = "migrate"
       /\ trace.op = "migrate" /\ trace.svc = name /\ trace.result = "ok"
    THEN [op |-> "migrate", target |-> prev.from]
    ELSE NoPrior

\* RegisterService(name, ...) and, before it, a Downgrade(name) that returned nil
\* and itself came right after RegisterService and a successful Migrate.
\* target: the target of that Migrate; lower: the target of the Downgrade;
\* version: the saved Version before the Downgrade; undone: the records it undid
PriorDowngrade(name) ==
    IF /\ prev.op = "registerService" /\ prev.svc = name /\ prev.result = "ok"
       /\ prev.after = "downgrade"
       /\ trace.op = "downgrade" /\ trace.svc = name /\ trace.result = "ok"
       /\ trace.prior.op = "migrate"
    THEN [op |-> "downgrade", target |-> trace.prior.target, lower |-> prev.from,
          version |-> trace.before.version, undone |-> trace.executed]
    ELSE NoPrior

\* Migrate up to the loop: connect, system tables, reconciliation, plan
MigrateBegin(serviceName) ==
    /\ UNCHANGED versionCase
    /\ call.op = "idle"
    /\ Inside("migrate", serviceName)
    /\ LET tr == [NoTrace EXCEPT !.op = "migrate", !.svc = serviceName,
                                 !.result = "running",
                                 !.rerun = (prev.op = "migrate" /\ prev.svc = serviceName),
                                 !.first = prev.result,
                                 !.before = store[serviceName],
                                 !.prior = PriorDowngrade(serviceName)]
       IN IF ~services[serviceName].present
          THEN /\ trace' = [tr EXCEPT !.result = "err", !.reason = "service not found"]
               /\ prev' = [op |-> "migrate", svc |-> serviceName, result |-> "err"]
               /\ conns' = <<>>
               /\ Unlock("migrate", serviceName, "err")
               /\ UNCHANGED <<services, store, call, host, fulfillment>>
          ELSE IF ~services[serviceName].ConnectFunc
          THEN \* a call of the nil connect hook
               /\ trace' = [tr EXCEPT !.result = "panic", !.reason = "nil ConnectFunc"]
               /\ prev' = [op |-> "migrate", svc |-> serviceName, result |-> "panic"]
               /\ conns' = <<>>
               /\ Unlock("migrate", serviceName, "panic")
               /\ UNCHANGED <<services, store, call, host, fulfillment>>
          ELSE \E failAt \in HostField(host, "saveFailures", {0}) :
            LET cn == Connect(<<>>, serviceName)
                svcs == [n \in ServiceNames |->
                            [services[n] EXCEPT !.Db = IF n = serviceName THEN Len(cn)
                                                       ELSE 0]]
                service == svcs[serviceName]
                db == initSystemTables(store[serviceName])
            IN \E saved \in {saveNewMigrations(service, db, failAt)} :
               IF saved.err
               THEN /\ store' = [store EXCEPT ![serviceName] = saved.db]
                    /\ Return(serviceName, svcs, cn, tr, "err", saved.reason)
                    /\ UNCHANGED host
               ELSE \E p \in {MakePlan(service, saved.db, saved.savedMigrations)} :
                       /\ store' = [store EXCEPT ![serviceName] = saved.db]
                       /\ services' = svcs
                       /\ conns' = cn
                       /\ call' = [op |-> "migrate", svc |-> serviceName,
                                   plan |-> p.plan,
                                   savedMigrations |-> p.savedMigrations]
                       /\ trace' = [tr EXCEPT !.planned =
                                       [i \in 1..Len(p.plan) |-> p.plan[i].Id]]
                       /\ prev' = NoPrev
                       /\ UNCHANGED <<host, mutex, pc, fulfillment>>

\* one round of the loop over the plan
MigrateStep ==
    /\ UNCHANGED versionCase
    /\ call.op = "migrate"
    /\ call.plan # <<>>
    /\ LET serviceName == call.svc
           service == services[serviceName]
           migrationModel == Head(call.plan)
           found == findMigration(service, migrationModel)
           step == [Id |-> migrationModel.Id, found |-> found.ok,
                    validated |-> FALSE, invoked |-> FALSE, err |-> FALSE,
                    allow |-> FALSE]
       IN IF ~found.ok
          THEN IF ~allowBypassNotFound(migrationModel)
               THEN /\ Return(serviceName, services, conns,
                              [trace EXCEPT !.step = step], "err", "not found")
                    /\ UNCHANGED <<store, host>>
               ELSE /\ store' = [store EXCEPT ![serviceName] =
                            UpdateMigrationState(@, migrationModel, StateNotFound)]
                    /\ call' = [call EXCEPT !.plan = Tail(@)]
                    /\ trace' = [trace EXCEPT !.step = step]
                    /\ UNCHANGED <<services, host, conns, prev, mutex, pc, fulfillment>>
          ELSE \E actionOk \in HostField(host, "outcomes", BOOLEAN) :
               \E data \in found.migration.Writes \cup {store[serviceName].data} :
               \E r \in {executeMigration(serviceName, services, store, conns,
                                          found.migration, actionOk, data)} :
               LET migration == found.migration
                   did == [step EXCEPT !.validated = r.validated,
                                       !.invoked = r.invoked, !.err = r.err,
                                       !.allow = migration.IsAllowFailure]
                   tr == [trace EXCEPT !.step = did,
                                       !.executed = IF r.invoked
                                                    THEN Append(@, migrationModel.Id)
                                                    ELSE @,
                                       !.swallowed =
                                           IF r.err /\ ~migrateAborts(r.err, migration)
                                           THEN Append(@, migrationModel.Id)
                                           ELSE @]
               IN IF migrateAborts(r.err, migration)
                  THEN /\ store' = [r.stores EXCEPT ![serviceName] =
                               UpdateMigrationState(@, migrationModel, StateFailure)]
                       /\ Return(serviceName, r.services, r.conns, tr, "err",
                                 "migration failed")
                       /\ UNCHANGED host
                  ELSE /\ store' = [r.stores EXCEPT ![serviceName] =
                               saveStateOnSuccessfulMigration(@, call.savedMigrations,
                                   migrationModel, migration)]
                       /\ services' = r.services
                       /\ conns' = r.conns
                       /\ call' = [call EXCEPT !.plan = Tail(@)]
                       /\ trace' = tr
                       /\ UNCHANGED <<host, prev, mutex, pc, fulfillment>>

\* the plan is empty: Migrate returns nil
MigrateReturn ==
    /\ UNCHANGED versionCase
    /\ call.op = "migrate"
    /\ call.plan = <<>>
    /\ Return(call.svc, services, conns, trace, "ok", "")
    /\ UNCHANGED <<store, host>>

----------------------------------------------------------------------------
(* Downgrade (part_010) *)

\* Downgrade up to the loop: connect, system tables, persisted records, plan
DowngradeBegin(serviceName) ==
    /\ UNCHANGED versionCase
    /\ call.op = "idle"
    /\ Inside("downgrade", serviceName)
    /\ LET tr == [NoTrace EXCEPT !.op = "downgrade", !.svc = serviceName,
                                 !.result = "running",
                                 !.before = store[serviceName],
                                 !.prior = PriorMigrate(serviceName)]
       IN IF ~services[serviceName].present
          THEN /\ trace' = [tr EXCEPT !.result = "err", !.reason = "service not found"]
               /\ prev' = [op |-> "downgrade", svc |-> serviceName, result |-> "err"]
               /\ conns' = <<>>
               /\ Unlock("downgrade", serviceName, "err")
               /\ UNCHANGED <<services, store, call, host, fulfillment>>
          ELSE IF ~services[serviceName].ConnectFunc
          THEN \* a call of the nil connect hook
               /\ trace' = [tr EXCEPT !.result = "panic", !.reason = "nil ConnectFunc"]
               /\ prev' = [op |-> "downgrade", svc |-> serviceName, result |-> "panic"]
               /\ conns' = <<>>
               /\ Unlock("downgrade", serviceName, "panic")
               /\ UNCHANGED <<services, store, call, host, fulfillment>>
          ELSE \E failAt \in HostField(host, "saveFailures", {0}) :
            LET cn == Connect(<<>>, serviceName)
                svcs == [n \in ServiceNames |->
                            [services[n] EXCEPT !.Db = IF n = serviceName THEN Len(cn)
                                                       ELSE 0]]
                service == svcs[serviceName]
                db == store[serviceName]
                savedMigrations == GetMigrationsSorted(db, "rankDesc")
            IN \E p \in {planDowngrade(service, db, failAt)} :
               IF ~HasVersionTable(db)
               THEN /\ Return(serviceName, svcs, cn, tr, "err", "no system tables")
                    /\ UNCHANGED <<store, host>>
               ELSE IF p.err
               THEN /\ store' = [store EXCEPT ![serviceName] = p.db]
                    /\ Return(serviceName, svcs, cn, tr, "err", p.reason)
                    /\ UNCHANGED host
               ELSE /\ store' = [store EXCEPT ![serviceName] = p.db]
                    /\ services' = svcs
                    /\ conns' = cn
                    /\ call' = [op |-> "downgrade", svc |-> serviceName,
                                plan |-> p.plan, savedMigrations |-> savedMigrations]
                    /\ trace' = [tr EXCEPT !.planned =
                                    [i \in 1..Len(p.plan) |-> p.plan[i].Id]]
                    /\ prev' = NoPrev
                    /\ UNCHANGED <<host, mutex, pc, fulfillment>>

\* one round of the loop over the downgrade plan
DowngradeStep ==
    /\ UNCHANGED versionCase
    /\ call.op = "downgrade"
    /\ call.plan # <<>>
    /\ LET serviceName == call.svc
           migrationModel == Head(call.plan)
           found == findMigration(services[serviceName], migrationModel)
           step == [Id |-> migrationModel.Id, found |-> found.ok,
                    validated |-> FALSE, invoked |-> FALSE, err |-> ~found.ok,
                    allow |-> FALSE]
       IN IF ~found.ok
          THEN /\ Return(serviceName, services, conns,
                         [trace EXCEPT !.step = step], "err", "not found")
               /\ UNCHANGED <<store, host>>
          ELSE \E actionOk \in HostField(host, "outcomes", BOOLEAN) :
               LET migration == found.migration
                   r == executeDowngrade(migration, actionOk)
                   tr == [trace EXCEPT
                             !.step = [step EXCEPT !.validated = r.invoked,
                                                   !.invoked = r.invoked,
                                                   !.err = r.err],
                             !.executed = IF r.invoked
                                          THEN Append(@, migrationModel.Id) ELSE @]
               IN IF r.err
                  THEN /\ Return(serviceName, services, conns, tr, "err",
                                 "downgrade failed")
                       /\ UNCHANGED <<store, host>>
                  ELSE /\ store' = [store EXCEPT ![serviceName] =
                               saveStateAfterDowngrading(@, call.savedMigrations,
                                   migrationModel, migration)]
                       /\ call' = [call EXCEPT !.plan = Tail(@)]
                       /\ trace' = tr
                       /\ UNCHANGED <<services, host, conns, prev, mutex, pc,
                                      fulfillment>>

\* the plan is empty: Downgrade returns nil
DowngradeReturn ==
    /\ UNCHANGED versionCase
    /\ call.op = "downgrade"
    /\ call.plan = <<>>
    /\ Return(call.svc, services, conns, trace, "ok", "")
    /\ UNCHANGED <<store, host>>

----------------------------------------------------------------------------
(* CheckFulfillment (manager.go) *)

CheckFulfillment(serviceName) ==
    /\ UNCHANGED versionCase
    /\ call.op = "idle"
    /\ Inside("checkFulfillment", serviceName)
    /\ Unlock("checkFulfillment", serviceName, "ok")
    /\ IF ~services[serviceName].present
       THEN /\ fulfillment' = [svc |-> serviceName, reasonErr |-> "service not found",
                               ok |-> FALSE, err |-> TRUE]
            /\ prev' = [op |-> "checkFulfillment", svc |-> serviceName,
                        result |-> "err"]
            /\ UNCHANGED <<services, conns>>
       ELSE IF ~services[serviceName].ConnectFunc
       THEN \* a call of the nil connect hook
            /\ fulfillment' = [NoFulfillment EXCEPT !.svc = serviceName]
            /\ prev' = [op |-> "checkFulfillment", svc |-> serviceName,
                        result |-> "panic"]
            /\ UNCHANGED <<services, conns>>
       ELSE LET cn == Connect(<<>>, serviceName)
                svcs == [services EXCEPT ![serviceName].Db = Len(cn)]
                r == checkFulfillment(svcs[serviceName], store[serviceName])
            IN /\ fulfillment' = [svc |-> serviceName, reasonErr |-> r.reasonErr,
                                  ok |-> r.ok, err |-> r.err]
               /\ prev' = [op |-> "checkFulfillment", svc |-> serviceName,
                           result |-> IF r.err THEN "err" ELSE "ok"]
               /\ services' = svcs
               /\ conns' = Disconnect(cn, svcs[serviceName].Db)
    /\ UNCHANGED <<store, call, host, trace>>

----------------------------------------------------------------------------

Next ==
    \/ \E t \in Goroutines : \E name \in ServiceNames :
          \E op \in Calls(host, t, name) : Lock(t, op, name)
    \/ \E name \in ServiceNames : \E targetVersion \in Build(host).targets[name] :
          RegisterService(name, targetVersion)
    \/ \E name \in ServiceNames :
          \E migrationsStruct \in Build(host).migrations[name] :
             Register(name, migrationsStruct)
    \/ Restart
    \/ \E name \in ServiceNames : \E data \in Build(host).data[name] :
          MutateStore(name, data)
    \/ \E name \in ServiceNames : MigrateBegin(name)
    \/ MigrateStep
    \/ MigrateReturn
    \/ \E name \in ServiceNames : DowngradeBegin(name)
    \/ DowngradeStep
    \/ DowngradeReturn
    \/ \E name \in ServiceNames : CheckFulfillment(name)

Spec == Init /\ [][Next]_vars

----------------------------------------------------------------------------
(* The retrying host under fair scheduling *)

InitRetry == Init /\ Build(host) = HostRetry

NextRetry ==
    \/ \E t \in Goroutines : \E name \in ServiceNames :
          \E op \in Calls(host, t, name) : Lock(t, op, name)
    \/ \E name \in ServiceNames : \E targetVersion \in Build(host).targets[name] :
          RegisterService(name, targetVersion)
    \/ \E name \in ServiceNames :
          \E migrationsStruct \in Build(host).migrations[name] :
             Register(name, migrationsStruct)
    \/ \E name \in ServiceNames : MigrateBegin(name)
    \/ MigrateStep
    \/ MigrateReturn

\* MigrateBegin can take a step exactly when a goroutine has entered Migrate,
\* MigrateStep when the plan of the call is not empty, MigrateReturn when it is
MigrateBeginEnabled ==
    call.op = "idle" /\ \E name \in ServiceNames : Inside("migrate", name)

MigrateStepEnabled == call.op = "migrate" /\ call.plan # <<>>

MigrateReturnEnabled == call.op = "migrate" /\ call.plan = <<>>

\* a goroutine that waits in Lock gets the mutex in the end (sync.Mutex hands
\* the mutex to a starving waiter), and a goroutine inside an operation runs
\* on; weak fairness of the steps of Migrate is written out with their guards
FairRetry ==
    /\ \A t \in Goroutines :
          SF_vars(\E name \in ServiceNames :
                    \E op \in {"registerService", "register", "migrate"} :
                        Lock(t, op, name))
    /\ WF_vars(\E name \in ServiceNames :
                 \E targetVersion \in Build(host).targets[name] :
                    RegisterService(name, targetVersion))
    /\ WF_vars(\E name \in ServiceNames :
                 \E migrationsStruct \in Build(host).migrations[name] :
                    Register(name, migrationsStruct))
    /\ \/ []<>~MigrateBeginEnabled
       \/ []<><<\E name \in ServiceNames : MigrateBegin(name)>>_vars
    /\ \/ []<>~MigrateStepEnabled
       \/ []<><<MigrateStep>>_vars
    /\ \/ []<>~MigrateReturnEnabled
       \/ []<><<MigrateReturn>>_vars

SpecRetry == InitRetry /\ [][NextRetry]_vars /\ FairRetry

----------------------------------------------------------------------------
(* The operations of models.Version on their own *)

\* greatest component of the Versions that are compared
MaxField == 1

\* greatest number of dot separated components of a version string
MaxComponents == 5

Versions ==
    {Version(major, minor, patch, preRelease) :
        major \in 0..MaxField, minor \in 0..MaxField,
        patch \in 0..MaxField, preRelease \in 0..MaxField}

\* components with one, two and three decimal digits
PrintedFields == (0..MaxField) \cup {9, 10, 109}

PrintedVersions ==
    {Version(major, minor, patch, preRelease) :
        major \in PrintedFields, minor \in PrintedFields,
        patch \in PrintedFields, preRelease \in PrintedFields}

\* the components "0", "1", "10", "x", "" and "01"
Components == {<<"0">>, <<"1">>, <<"1", "0">>, Junk, <<>>, <<"0", "1">>}

VersionStrings == UNION {[1..n -> Components] : n \in 1..MaxComponents}

VersionCase(kind, a, b, c, versionString) ==
    [NoVersionCase EXCEPT !.kind = kind, !.a = a, !.b = b, !.c = c,
                          !.versionString = versionString]

managerVars == <<services, store, call, host, conns, trace, prev, mutex, pc, fulfillment>>

InitVersion ==
    /\ services = [n \in ServiceNames |-> NoService]
    /\ store = [n \in ServiceNames |-> EmptyStore]
    /\ call = Idle
    /\ host = [deployment |-> 1, restarts |-> 0]
    /\ conns = <<>>
    /\ trace = NoTrace
    /\ prev = NoPrev
    /\ mutex = FALSE
    /\ pc = [t \in Goroutines |-> NoCall]
    /\ fulfillment = NoFulfillment
    /\ \/ \E a \in Versions : \E b \in Versions : \E c \in Versions :
             versionCase = VersionCase("order", a, b, c, <<>>)
       \/ \E v \in PrintedVersions :
             versionCase = VersionCase("string", v, v, v, <<>>)
       \/ \E versionString \in VersionStrings :
             versionCase = VersionCase("parse", ZeroVersion, ZeroVersion, ZeroVersion,
                                       versionString)

\* what the five comparison methods return for v and version
Comparison(v, version) ==
    [Equals |-> Equals(v, version), MoreThan |-> MoreThan(v, version),
     MoreOrEqual |-> MoreOrEqual(v, version), LessThan |-> LessThan(v, version),
     LessOrEqual |-> LessOrEqual(v, version)]

\* the comparison methods are called on a and b, b and c, a and c
Compare ==
    /\ versionCase.kind = "order" /\ versionCase.steps = <<>>
    /\ versionCase' =
          [versionCase EXCEPT
              !.order = [ab |-> Comparison(versionCase.a, versionCase.b),
                         bc |-> Comparison(versionCase.b, versionCase.c),
                         ac |-> Comparison(versionCase.a, versionCase.c)],
              !.steps = <<"Compare">>]
    /\ UNCHANGED managerVars

\* v.String() is called, on the given Version or on the one just parsed
VersionString ==
    /\ \/ versionCase.kind = "string" /\ versionCase.steps = <<>>
       \/ /\ versionCase.kind = "parse" /\ versionCase.steps = <<"ParseVersion">>
          /\ ~versionCase.parsed.err
    /\ LET v == IF versionCase.kind = "string" THEN versionCase.a
                ELSE versionCase.parsed.version
       IN versionCase' = [versionCase EXCEPT !.printed = String(v),
                                             !.steps = Append(@, "String")]
    /\ UNCHANGED managerVars

\* ParseVersion is called, on the given string or on the one just printed
VersionParse ==
    /\ \/ versionCase.kind = "parse" /\ versionCase.steps = <<>>
       \/ versionCase.kind = "string" /\ versionCase.steps = <<"String">>
    /\ LET versionString == IF versionCase.kind = "parse"
                            THEN versionCase.versionString
                            ELSE versionCase.printed
       IN versionCase' = [versionCase EXCEPT !.parsed = ParseVersion(versionString),
                                             !.steps = Append(@, "ParseVersion")]
    /\ UNCHANGED managerVars

NextVersion == Compare \/ VersionString \/ VersionParse

SpecVersion == InitVersion /\ [][NextVersion]_vars

----------------------------------------------------------------------------
(* The root package (src/manager.go 1-306, src/db_migrate.go): Register and the
   reconciliation of Migrate. Versions are strings there; a persisted record is
   kept with the Version that mustParseVersion reads from its string. *)

getMigrationIdentifierRoot(version, migrationType) == <<version, migrationType>>

\* one round of the loop of Register
registerOneRoot(service, migration) ==
    LET identifier == getMigrationIdentifierRoot(migration.Version,
                                                 migration.MigrationType)
    IN IF identifier \in registeredMigrationsSet(service) THEN service
       ELSE [service EXCEPT !.registeredMigrations =
                Append(@, [migration EXCEPT !.Identifier = identifier])]

migrationIsNewRoot(migration, savedMigrations) ==
    \A j \in 1..Len(savedMigrations) :
        migration.Identifier #
            getMigrationIdentifierRoot(String(savedMigrations[j].Version),
                                       savedMigrations[j].Type)

\* the less function handed to sort.SliceStable: it reads the catalog at the
\* two positions, not the slice that is sorted
lessRoot(service, i, j) ==
    LessThan(ParseVersion(service.registeredMigrations[i].Version).version,
             ParseVersion(service.registeredMigrations[j].Version).version)

Swap(data, i, j) == [data EXCEPT ![i] = data[j], ![j] = data[i]]

RECURSIVE sinkRoot(_, _, _)
\* the inner loop of the insertion sort of sort.SliceStable (slices of at most
\* 20 elements): for j := i; j > a && less(j, j-1); j-- { swap(j, j-1) }
sinkRoot(data, service, j) ==
    IF j > 1 /\ lessRoot(service, j, j - 1)
    THEN sinkRoot(Swap(data, j, j - 1), service, j - 1)
    ELSE data

RECURSIVE insertionSortRoot(_, _, _)
insertionSortRoot(data, service, i) ==
    IF i > Len(data) THEN data
    ELSE insertionSortRoot(sinkRoot(data, service, i), service, i + 1)

\* a new migration below an already saved one: panic
lowerVersionThanExistingRoot(newMigrations, savedMigrations) ==
    \E i \in 1..Len(newMigrations) : \E j \in 1..Len(savedMigrations) :
        MoreThan(savedMigrations[j].Version,
                 ParseVersion(newMigrations[i].Version).version)

saveNewMigrationsRoot(service, db) ==
    LET savedMigrations == GetMigrationsSorted(db, "rankAsc")
        maxRank == maxRankOf(savedMigrations)
        IsNew(migration) == migrationIsNewRoot(migration, savedMigrations)
        newMigrations == SelectSeq(service.registeredMigrations, IsNew)
    IN IF lowerVersionThanExistingRoot(newMigrations, savedMigrations)
       THEN [panic |-> TRUE, db |-> db]
       ELSE LET sorted == insertionSortRoot(newMigrations, service, 2)
                requests == [i \in 1..Len(sorted) |->
                                [Type |-> sorted[i].MigrationType,
                                 Version |-> ParseVersion(sorted[i].Version).version,
                                 State |-> StateRegistered, Rank |-> 0]]
            IN [panic |-> FALSE, db |-> saveAll(db, requests, 1, maxRank)]

\* the version strings of the catalog entries of the root program
RootVersions == {v1000, v1001, v1010, v1100}

InitRoot ==
    /\ versionCase = NoVersionCase
    /\ services = [n \in ServiceNames |->
                     IF n = "s1"
                     THEN [NoService EXCEPT !.present = TRUE, !.ConnectFunc = TRUE,
                                            !.DisconnectFunc = TRUE]
                     ELSE NoService]
    /\ store = [n \in ServiceNames |-> EmptyStore]
    /\ call = Idle
    /\ host = [deployment |-> 1, restarts |-> 0]
    /\ conns = <<>>
    /\ trace = NoTrace
    /\ prev = NoPrev
    /\ mutex = FALSE
    /\ pc = [t \in Goroutines |-> NoCall]
    /\ fulfillment = NoFulfillment

\* Register(serviceName, migration)
RegisterRoot(serviceName, migration) ==
    /\ services[serviceName].present
    /\ services' = [services EXCEPT
                       ![serviceName] = registerOneRoot(@, migration)]
    /\ UNCHANGED <<store, call, host, conns, trace, prev, mutex, pc, fulfillment,
                   versionCase>>

\* Migrate(serviceName) up to planMigrate: the system tables, then the
\* reconciliation; a panic leaves the store as initSystemTables left it
ReconcileRoot(serviceName) ==
    /\ services[serviceName].present
    /\ store' = [store EXCEPT ![serviceName] =
                    saveNewMigrationsRoot(services[serviceName],
                                          initSystemTables(@)).db]
    /\ UNCHANGED <<services, call, host, conns, trace, prev, mutex, pc, fulfillment,
                   versionCase>>

NextRoot ==
    \/ \E name \in ServiceNames : \E version \in RootVersions :
          RegisterRoot(name, Migration(TypeVersioned, version))
    \/ \E name \in ServiceNames : ReconcileRoot(name)

SpecRoot == InitRoot /\ [][NextRoot]_vars

----------------------------------------------------------------------------
(* Vocabulary of the properties *)

\* a Migrate call has returned and nothing has happened since
JustReturned == call.op = "idle" /\ prev.op = "migrate" /\ trace.op = "migrate"

\* a Migrate call is in its loop, or has just returned
InOrAfterCall == trace.op = "migrate" /\ (call.op = "migrate" \/ JustReturned)

\* the next step, if any, is a round of the loop of Migrate
AtLoop == call.op = "migrate" /\ call.plan # <<>>

\* the next step, if it changes trace, is the start of a Migrate call
AtBegin == call.op = "idle"

Records(name) == store[name].migrations

RecordIds(name) == 1..Len(store[name].migrations)

Catalog(name) == services[name].registeredMigrations

EntryVersion(migration) == ParseVersion(migration.Version).version

\* the catalog entries with the identity (Version, type) of a record
EntriesOf(name, r) ==
    {i \in 1..Len(Catalog(name)) :
        /\ EntryVersion(Catalog(name)[i]) = r.Version
        /\ Catalog(name)[i].MigrationType = r.Type}

\* lexicographic order on (major, minor, patch, pre-release)
Tuple(v) == <<v.Major, v.Minor, v.Patch, v.PreRelease>>

Before(v, w) ==
    \E k \in 1..4 : /\ Tuple(v)[k] < Tuple(w)[k]
                    /\ \A j \in 1..(k - 1) : Tuple(v)[j] = Tuple(w)[j]

InSeq(x, seq) == \E i \in 1..Len(seq) : seq[i] = x

----------------------------------------------------------------------------
(* C1: idempotent re-run *)

\* C1 as stated: when Migrate(s) is called twice in a row with no Register,
\* RegisterService or store mutation in between, the second call builds an empty
\* plan and leaves every persisted record and the saved Version as the first call
\* left them.
C1_RerunAlwaysEmpty ==
    (InOrAfterCall /\ trace.rerun) =>
        /\ trace.planned = <<>>
        /\ Records(trace.svc) = trace.before.migrations
        /\ store[trace.svc].version = trace.before.version

\* every persisted repeatable record has a catalog entry that is not
\* repeatUnconditional and whose checksumFn returns the persisted checksum
RepeatablesSettled(name, db) ==
    \A i \in 1..Len(db.migrations) :
        LET r == db.migrations[i]
        IN r.Type = TypeRepeatable =>
              /\ EntriesOf(name, r) # {}
              /\ \A e \in EntriesOf(name, r) :
                    /\ ~Catalog(name)[e].RepeatUnconditional
                    /\ r.Checksum = (IF Catalog(name)[e].CheckSum = "nil" THEN ""
                                     ELSE db.data)

\* C1 amended: when Migrate(s) is called twice in a row with nothing in between,
\* the first call returned success, and every persisted repeatable record has a
\* catalog entry that is not repeatUnconditional and whose checksumFn still returns
\* the persisted checksum, then the second call builds an empty plan and leaves the
\* persisted records and the saved Version unchanged.
C1_RerunEmptyAfterSuccess ==
    (InOrAfterCall /\ trace.rerun /\ trace.first = "ok"
        /\ RepeatablesSettled(trace.svc, trace.before)) =>
        /\ trace.planned = <<>>
        /\ Records(trace.svc) = trace.before.migrations
        /\ store[trace.svc].version = trace.before.version

\* a second call in a row returned after an empty plan, with records of all
\* three types persisted
C1_Witness ==
    /\ JustReturned /\ trace.rerun /\ trace.first = "ok" /\ trace.result = "ok"
    /\ RepeatablesSettled(trace.svc, trace.before)
    /\ trace.planned = <<>>
    /\ \E i, j \in RecordIds(trace.svc) :
          /\ Records(trace.svc)[i].Type = TypeRepeatable
          /\ Records(trace.svc)[j].Type = TypeVersioned

----------------------------------------------------------------------------
(* C2: baseline supersession *)

\* C2: when a Migrate call has executed a baseline record B and returned
\* success, every versioned record with a lower rank than B is skipped and its
\* forward action was not executed in that call.
C2_BaselineSupersedes ==
    (JustReturned /\ trace.result = "ok") =>
        \A b \in RecordIds(trace.svc) :
            (Records(trace.svc)[b].Type = TypeBaseline /\ InSeq(b, trace.executed)) =>
                \A v \in RecordIds(trace.svc) :
                    (/\ Records(trace.svc)[v].Type = TypeVersioned
                     /\ Records(trace.svc)[v].Rank < Records(trace.svc)[b].Rank) =>
                        /\ Records(trace.svc)[v].State = StateSkipped
                        /\ ~InSeq(v, trace.executed)

----------------------------------------------------------------------------
(* C3: version-regression guard *)

\* reconciliation runs in the call that starts with this step
Reconciles(name) == services[name].present /\ services[name].ConnectFunc

\* some catalog entry without a persisted record has a Version for which
\* Rel(entry version, persisted version) holds for some persisted record
Stages(name, Rel(_, _)) ==
    \E e \in 1..Len(Catalog(name)) :
        /\ \A i \in RecordIds(name) : e \notin EntriesOf(name, Records(name)[i])
        /\ \E i \in RecordIds(name) :
              Rel(EntryVersion(Catalog(name)[e]), Records(name)[i].Version)

BeforeOrEqual(v, w) == Before(v, w) \/ v = w

----------------------------------------------------------------------------
(* C4, C5, C6: failure of a plan entry *)

\* the record, and the catalog entry, of the round of the loop that is next
NextModel == Head(call.plan)

NextEntry == Catalog(call.svc)[CHOOSE e \in EntriesOf(call.svc, NextModel) : TRUE]

NextFound == EntriesOf(call.svc, NextModel) # {}

\* C4: when the forward action of a plan entry, or its validation, fails and the
\* entry's allow-failure flag is unset, the record becomes failure and nothing
\* else changes in the records, the saved Version is not written, and Migrate
\* returns an error without running the rest of the plan.
C4_FailureAborts ==
    [][(AtLoop /\ NextFound /\ trace'.step.err /\ ~NextEntry.IsAllowFailure) =>
         (/\ store'[call.svc].migrations =
                [Records(call.svc) EXCEPT ![NextModel.Id].State = StateFailure]
          /\ store'[call.svc].version = store[call.svc].version
          /\ call'.op = "idle"
          /\ trace'.result = "err"
          /\ trace'.executed \in {trace.executed, Append(trace.executed, NextModel.Id)})
      ]_vars

\* a call has just aborted on a failed action with plan entries left over
C4_Witness ==
    /\ JustReturned /\ trace.result = "err" /\ trace.reason = "migration failed"
    /\ trace.step.invoked /\ trace.step.err /\ ~trace.step.allow
    /\ Records(trace.svc)[trace.step.Id].State = StateFailure
    /\ trace.planned[Len(trace.planned)] # trace.step.Id

\* C5: when the forward action of a plan entry is invoked and fails and the
\* entry's allow-failure flag is set, the record becomes success, the saved Version
\* becomes the entry's Version when it is versioned or baseline, and the loop goes
\* on with the rest of the plan instead of returning the error.
C5_AllowFailureContinues ==
    [][(AtLoop /\ NextFound /\ trace'.step.invoked /\ trace'.step.err
            /\ NextEntry.IsAllowFailure) =>
         (/\ store'[call.svc].migrations[NextModel.Id].State = StateSuccess
          /\ (NextEntry.MigrationType \in {TypeVersioned, TypeBaseline} =>
                 store'[call.svc].version = <<EntryVersion(NextEntry)>>)
          /\ call'.op = "migrate"
          /\ call'.plan = Tail(call.plan)
          /\ trace'.result = "running")
      ]_vars

\* a call went past a failed allow-failure entry, ran what was left of the plan
\* and has returned success
C5_Witness ==
    /\ JustReturned /\ trace.result = "ok"
    /\ \E i \in 1..(Len(trace.executed) - 1) :
          /\ InSeq(trace.executed[i], trace.swallowed)
          /\ Records(trace.svc)[trace.executed[i]].State = StateSuccess
    /\ trace.step.invoked /\ ~trace.step.err

\* C6: Migrate makes a record success only if the record's forward action was
\* invoked in that call.
C6_SuccessOnlyIfInvoked ==
    [][(trace'.op = "migrate" /\ trace'.svc \in ServiceNames) =>
          \A i \in 1..Len(store'[trace'.svc].migrations) :
             (/\ store'[trace'.svc].migrations[i].State = StateSuccess
              /\ (i \in RecordIds(trace'.svc) =>
                     Records(trace'.svc)[i].State # StateSuccess)) =>
                 InSeq(i, trace'.executed)
      ]_vars

----------------------------------------------------------------------------
(* C7: missing catalog entry *)

C7_WitnessAbort ==
    /\ JustReturned /\ trace.result = "err" /\ trace.reason = "not found"
    /\ Records(trace.svc)[trace.step.Id].Type = TypeVersioned

----------------------------------------------------------------------------
(* C8: dependency strictness *)

\* what C8 requires of one declared dependency, read off the state
DependencySatisfied(dependency) ==
    LET b == dependency.Name
        r == ParseVersion(dependency.Version).version
    IN /\ services[b].present /\ services[b].ConnectFunc
       /\ store[b].versionTable
       /\ store[b].version # <<>>
       /\ LET v == store[b].version[1]
          IN /\ v # ZeroVersion
             /\ IF dependency.Strict THEN v = r ELSE (v = r \/ Before(r, v))

\* C8: the dependency validation of a migration passes iff every declared
\* dependency names a registered service whose version table exists and holds a
\* non-zero Version V with V = R when strict and V >= R otherwise.
C8_DependencyStrictness ==
    [][(AtLoop /\ NextFound /\ ~actionModalityInvalid(NextEntry)
            /\ NextEntry.Dependency # <<>>) =>
         (trace'.step.validated <=>
             \A d \in 1..Len(NextEntry.Dependency) :
                 DependencySatisfied(NextEntry.Dependency[d]))
      ]_vars

\* the latest round validated a strict dependency against the live Version
C8_Witness ==
    /\ InOrAfterCall /\ trace.step # <<>> /\ trace.step.found /\ trace.step.validated
    /\ \E e \in EntriesOf(trace.svc, Records(trace.svc)[trace.step.Id]) :
          /\ Catalog(trace.svc)[e].Dependency # <<>>
          /\ Catalog(trace.svc)[e].Dependency[1].Strict
          /\ Catalog(trace.svc)[e].Dependency[1].Name # trace.svc

\* a strict dependency was refused although the live Version is higher
C8_WitnessHigher ==
    /\ InOrAfterCall /\ trace.step # <<>> /\ trace.step.found /\ ~trace.step.validated
    /\ \E e \in EntriesOf(trace.svc, Records(trace.svc)[trace.step.Id]) :
          /\ Catalog(trace.svc)[e].Dependency # <<>>
          /\ Catalog(trace.svc)[e].Dependency[1].Strict
          /\ store["s2"].version # <<>>
          /\ Before(ParseVersion(Catalog(trace.svc)[e].Dependency[1].Version).version,
                    store["s2"].version[1])

----------------------------------------------------------------------------
(* C9: scoped dependency connections *)

\* C9: when Migrate has returned, every connection obtained from a connect hook
\* during the call has been handed to the disconnect hook exactly once.
C9_ConnectionsReleasedOnce ==
    JustReturned => \A h \in 1..Len(conns) : conns[h].closed = 1

----------------------------------------------------------------------------
(* C10: repeatable checksum gating *)

\* the persisted repeatable records of the service, as the call found them, that
\* were executed before and whose catalog entry is not repeatUnconditional
Gated(i) ==
    LET r == trace.before.migrations[i]
    IN /\ r.Type = TypeRepeatable
       /\ r.State = StateSuccess
       /\ EntriesOf(trace.svc, r) # {}
       /\ \A e \in EntriesOf(trace.svc, r) : ~Catalog(trace.svc)[e].RepeatUnconditional

\* checksumFn, evaluated when the call planned, differs from the persisted checksum
ChecksumChanged(i) ==
    LET r == trace.before.migrations[i]
    IN \E e \in EntriesOf(trace.svc, r) :
          r.Checksum # (IF Catalog(trace.svc)[e].CheckSum = "nil" THEN ""
                        ELSE trace.before.data)

\* C10: a repeatable record that an earlier Migrate call executed, leaving
\* checksum c, and whose entry is not repeatUnconditional is planned by a later
\* call iff checksumFn at planning time differs from c, and a call that returns
\* success has executed it iff so.
C10_ChecksumGating ==
    (InOrAfterCall /\ trace.result \in {"running", "ok"}) =>
        \A i \in 1..Len(trace.before.migrations) :
            Gated(i) =>
                /\ InSeq(i, trace.planned) <=> ChecksumChanged(i)
                /\ trace.result = "ok" => (InSeq(i, trace.executed) <=> ChecksumChanged(i))

\* a call has executed a repeatable record again because its checksum changed
C10_Witness ==
    /\ JustReturned /\ trace.result = "ok"
    /\ \E i \in 1..Len(trace.before.migrations) :
          Gated(i) /\ ChecksumChanged(i) /\ InSeq(i, trace.executed)

\* a call has skipped a repeatable record because its checksum is unchanged
C10_WitnessSkipped ==
    /\ JustReturned /\ trace.result = "ok"
    /\ \E i \in 1..Len(trace.before.migrations) :
          /\ Gated(i) /\ ~ChecksumChanged(i) /\ ~InSeq(i, trace.executed)
          /\ trace.before.migrations[i].Checksum # ""

----------------------------------------------------------------------------
(* C11: forward execution order *)

\* the place of a record's type in the order of execution
TypeOrder(type) ==
    CASE type = TypeBaseline -> 1
      [] type = TypeVersioned -> 2
      [] type = TypeRepeatable -> 3

\* record i may be executed before record j in one Migrate call
MayPrecede(r, s) ==
    /\ r.Id # s.Id
    /\ TypeOrder(r.Type) <= TypeOrder(s.Type)
    /\ ~(r.Type = TypeBaseline /\ s.Type = TypeBaseline)
    /\ r.Type = s.Type =>
          \/ Before(r.Version, s.Version)
          \/ r.Version = s.Version /\ r.Rank < s.Rank

\* C11: in every Migrate call the forward actions run in this order: at most one
\* baseline record first, then versioned records in ascending Version order, then
\* repeatable records in ascending Version order (ties in rank order), and no
\* record is executed twice.
C11_ExecutionOrder ==
    (trace.op = "migrate" /\ trace.svc \in ServiceNames) =>
        \A i, j \in 1..Len(trace.executed) :
            i < j => MayPrecede(Records(trace.svc)[trace.executed[i]],
                                Records(trace.svc)[trace.executed[j]])

\* a call has executed a baseline, two versioned records registered in descending
\* order of Version, and a repeatable record, and has returned success
C11_Witness ==
    /\ JustReturned /\ trace.result = "ok" /\ Len(trace.executed) = 4
    /\ Records(trace.svc)[trace.executed[1]].Type = TypeBaseline
    /\ Records(trace.svc)[trace.executed[2]].Type = TypeVersioned
    /\ Records(trace.svc)[trace.executed[3]].Type = TypeVersioned
    /\ Records(trace.svc)[trace.executed[4]].Type = TypeRepeatable
    /\ \E e, f \in 1..Len(Catalog(trace.svc)) :
          /\ e < f
          /\ e \in EntriesOf(trace.svc, Records(trace.svc)[trace.executed[3]])
          /\ f \in EntriesOf(trace.svc, Records(trace.svc)[trace.executed[2]])

----------------------------------------------------------------------------
(* C12: the downgrade plan and its order *)

\* a Downgrade call is in its loop, or has just returned
InOrAfterDowngrade ==
    /\ trace.op = "downgrade"
    /\ call.op = "downgrade" \/ (call.op = "idle" /\ prev.op = "downgrade")

\* the call got as far as its plan
DowngradePlanned ==
    /\ InOrAfterDowngrade
    /\ trace.result \in {"running", "ok"}
          \/ trace.reason \in {"not found", "downgrade failed"}

\* the state record i had when the plan was made: reconciliation adds records
\* in state registered
StateAtPlanning(i) ==
    IF i <= Len(trace.before.migrations) THEN trace.before.migrations[i].State
    ELSE StateRegistered

\* the saved Version when the plan was made, if one was saved
SavedAtPlanning == trace.before.version

----------------------------------------------------------------------------
(* C13: Downgrade reaches the target *)

\* a Downgrade call has just returned success
DowngradeSucceeded ==
    InOrAfterDowngrade /\ call.op = "idle" /\ trace.result = "ok"

\* C13: whenever Downgrade(s) returns success, the saved Version of s is lower
\* than or equal to the registered target version, for every persisted history
\* including ones that contain baseline records.
C13_DowngradeReachesTarget ==
    (DowngradeSucceeded /\ store[trace.svc].version # <<>>) =>
        BeforeOrEqual(store[trace.svc].version[1],
                      services[trace.svc].TargetVersion)

----------------------------------------------------------------------------
(* C14: Downgrade and the set of persisted records *)

\* C14: a Downgrade call never inserts a persisted migration record: the set of
\* persisted records is the same before and after any Downgrade call, also
\* when the catalog holds entries that are not yet persisted.
C14_DowngradeInsertsNothing ==
    InOrAfterDowngrade =>
        {<<Records(trace.svc)[i].Version, Records(trace.svc)[i].Type>> :
             i \in RecordIds(trace.svc)}
          = {<<trace.before.migrations[i].Version, trace.before.migrations[i].Type>> :
               i \in 1..Len(trace.before.migrations)}

----------------------------------------------------------------------------
(* C15: validation failure of a Downgrade step *)

\* the record at the front of the downgrade plan has no catalog entry, or its
\* entry has neither an inline Down statement nor a DownF callback
DowngradeValidationFails ==
    /\ call.op = "downgrade"
    /\ call.plan # <<>>
    /\ LET id == <<String(Head(call.plan).Version), Head(call.plan).Type>>
           catalog == services[call.svc].registeredMigrations
       IN \A i \in 1..Len(catalog) :
             catalog[i].Identifier = id => ~catalog[i].Down /\ ~catalog[i].DownF

----------------------------------------------------------------------------
(* C16: the precedence of the fulfillment conditions *)

\* CheckFulfillment has just returned for a service that RegisterService set up
JustChecked ==
    /\ call.op = "idle" /\ prev.op = "checkFulfillment"
    /\ fulfillment.svc = prev.svc
    /\ prev.result # "panic"
    /\ services[prev.svc].present

\* the catalog entries of service name that have no persisted record
Unpersisted(name) ==
    {i \in 1..Len(services[name].registeredMigrations) :
        \A j \in RecordIds(name) :
            <<String(Records(name)[j].Version), Records(name)[j].Type>>
                # services[name].registeredMigrations[i].Identifier}

SystemTablesMissing(name) ==
    ~store[name].versionTable \/ ~store[name].migrationsTable

\* the forthcoming condition, without looking at the records in exempt
ForthcomingCondition(name, exempt) ==
    \/ SystemTablesMissing(name)
    \/ /\ store[name].version # <<>>
       /\ \E j \in RecordIds(name) \ exempt :
             /\ BeforeOrEqual(store[name].version[1], Records(name)[j].Version)
             /\ Records(name)[j].State # StateSuccess
    \/ Unpersisted(name) # {}

FailedCondition(name) ==
    \E j \in RecordIds(name) : Records(name)[j].State = StateFailure

\* the target-not-latest condition, without looking at the records in exempt
TargetCondition(name, exempt) ==
    \/ \E j \in RecordIds(name) \ exempt :
          Before(services[name].TargetVersion, Records(name)[j].Version)
    \/ \E i \in 1..Len(services[name].registeredMigrations) :
          Before(services[name].TargetVersion,
                 ParseVersion(services[name].registeredMigrations[i].Version).version)

ExpectedReason(name) ==
    IF ForthcomingCondition(name, {}) THEN ErrHasForthcomingMigrations
    ELSE IF FailedCondition(name) THEN ErrHasFailedMigrations
    ELSE IF TargetCondition(name, {}) THEN ErrTargetVersionNotLatest
    ELSE "nil"

\* C16: CheckFulfillment returns the forthcoming reason whenever the forthcoming
\* condition holds (system tables missing, or a persisted record at/after the
\* saved Version not in success, or a catalog entry not persisted); otherwise
\* the failed reason whenever some persisted record is in state failure;
\* otherwise the target-not-latest reason whenever the target is lower than some
\* persisted or catalog Version; otherwise it reports fully satisfied.
C16_FulfillmentPrecedence ==
    JustChecked =>
        /\ fulfillment.reasonErr = ExpectedReason(prev.svc)
        /\ fulfillment.ok = (ExpectedReason(prev.svc) = "nil")
        /\ ~fulfillment.err

----------------------------------------------------------------------------
(* C17: a failure record is reported as failed *)

\* a record of service name is in state failure and, leaving it aside, neither
\* the forthcoming nor the target-not-latest condition holds
OnlyFailed(name) ==
    \E f \in RecordIds(name) :
        /\ Records(name)[f].State = StateFailure
        /\ ~ForthcomingCondition(name, {f})
        /\ ~TargetCondition(name, {})

\* C17: if some persisted record is in state failure and, leaving that record
\* aside, neither the forthcoming condition nor the target-not-latest condition
\* holds, then CheckFulfillment returns ErrHasFailedMigrations, e.g. right after
\* a Migrate that aborted on that record.
C17_FailedReported ==
    (JustChecked /\ OnlyFailed(prev.svc)) =>
        fulfillment.reasonErr = ErrHasFailedMigrations

----------------------------------------------------------------------------
(* C18: the history after a successful Migrate *)

\* C18: whenever Migrate(s) returns success, every persisted versioned record of
\* s whose Version is lower than or equal to the target version is in state
\* success or skipped, for every sequence of earlier Register, Migrate and
\* Downgrade calls.
C18_HistoryAccountedFor ==
    (JustReturned /\ trace.result = "ok") =>
        \A i \in RecordIds(trace.svc) :
            (/\ Records(trace.svc)[i].Type = TypeVersioned
             /\ BeforeOrEqual(Records(trace.svc)[i].Version,
                              services[trace.svc].TargetVersion))
            => Records(trace.svc)[i].State \in {StateSuccess, StateSkipped}

----------------------------------------------------------------------------
(* C19: finished records and the forward plan *)

Finished == {StateSuccess, StateSkipped}

\* C19 as stated: a persisted record of any type (baseline, versioned or
\* repeatable) that is in state success or skipped when a forward plan is built
\* is never placed in that plan.
C19_NoFinishedPlanned ==
    trace.op = "migrate" =>
        \A k \in 1..Len(trace.planned) : StateAtPlanning(trace.planned[k]) \notin Finished

\* C19, amended: a persisted baseline or versioned record that is in state
\* success or skipped when a forward plan is built is never placed in that plan;
\* a repeatable record in state success is planned again when its entry is
\* unconditional, its checksum has changed or its catalog entry is missing.
C19_NoFinishedVersionedPlanned ==
    trace.op = "migrate" =>
        \A k \in 1..Len(trace.planned) :
            Records(trace.svc)[trace.planned[k]].Type # TypeRepeatable
            => StateAtPlanning(trace.planned[k]) \notin Finished

\* a plan has been built that holds a versioned record while a successful
\* baseline, a skipped versioned record and a successful versioned record exist
C19_Witness ==
    /\ trace.op = "migrate"
    /\ \E k \in 1..Len(trace.planned) :
          Records(trace.svc)[trace.planned[k]].Type = TypeVersioned
    /\ \E i, j, l \in 1..Len(trace.before.migrations) :
          /\ Records(trace.svc)[i].Type = TypeBaseline
          /\ StateAtPlanning(i) = StateSuccess
          /\ Records(trace.svc)[j].Type = TypeVersioned
          /\ StateAtPlanning(j) = StateSkipped
          /\ Records(trace.svc)[l].Type = TypeVersioned
          /\ StateAtPlanning(l) = StateSuccess

----------------------------------------------------------------------------
(* C20: the operations of one manager are serialized *)

\* the goroutines that are inside the body of an operation of the manager
InsideBody == {t \in Goroutines : pc[t].op # "none"}

\* the services that the record at the front of the plan depends on
FrontDependencies ==
    IF call.op = "migrate" /\ call.plan # <<>>
    THEN LET found == findMigration(services[call.svc], Head(call.plan))
         IN IF found.ok
            THEN {found.migration.Dependency[i].Name :
                     i \in 1..Len(found.migration.Dependency)}
            ELSE {}
    ELSE {}

\* C20: on one manager at most one of RegisterService, Register, Migrate,
\* Downgrade and CheckFulfillment is inside its body at any time, for calls on
\* the same or on different service names; in particular a dependency
\* validation inside Migrate(A) that reconnects service B never overlaps with
\* an in-flight Migrate, Downgrade or CheckFulfillment on B.
C20_Serialized ==
    /\ Cardinality(InsideBody) <= 1
    /\ call.op # "idle" => InsideBody = {t \in Goroutines :
                                           pc[t].op = call.op /\ pc[t].svc = call.svc}
    /\ \A t \in Goroutines : \A name \in FrontDependencies \ {call.svc} :
          pc[t].svc # name

\* goroutine g1 is inside Migrate(s1) and holds a dependency connection to s2,
\* whose own operations are called by goroutine g2 and have migrated s2
C20_Witness ==
    /\ pc["g1"].op = "migrate" /\ pc["g1"].svc = "s1"
    /\ call.op = "migrate" /\ call.svc = "s1"
    /\ pc["g2"].op = "none"
    /\ {"migrate", "downgrade", "checkFulfillment"} \subseteq Calls(host, "g2", "s2")
    /\ store["s2"].version # <<>>
    /\ "s2" \in FrontDependencies

----------------------------------------------------------------------------
(* C21: the two retrying goroutines converge *)

\* every goroutine has got nil from Migrate and has stopped
RetryDone == \A t \in Goroutines : pc[t] = [NoCall EXCEPT !.at = Len(Program)]

Converged ==
    /\ RetryDone
    /\ \A name \in ServiceNames : store[name].version = <<Version(1, 0, 1, 0)>>

\* a forward plan has been built while a record was in state failure
PlannedWithFailure ==
    /\ trace.op = "migrate"
    /\ trace.reason \notin {"service not found", "nil ConnectFunc", "lower version",
                             "save failed"}
    /\ \E i \in 1..Len(trace.before.migrations) :
          trace.before.migrations[i].State = StateFailure

\* C21: with two goroutines on one manager, one repeating RegisterService,
\* Register and Migrate for s1 and the other for s2, each until its Migrate
\* returns nil, under fair scheduling both goroutines eventually get nil and
\* both services end with saved Version 1.0.1.0; a Migrate that failed on a
\* dependency is attempted again from the failed record on retry.
C21_Convergence ==
    /\ <>[]Converged
    /\ [](PlannedWithFailure =>
            /\ trace.planned # <<>>
            /\ StateAtPlanning(trace.planned[1]) = StateFailure)

\* Migrate(s1) has failed on its dependency on s2 and the retry has planned
\* the failed record 1.0.0.1 first
C21_Witness ==
    /\ Retries(host)
    /\ PlannedWithFailure /\ trace.svc = "s1" /\ call.op = "migrate"
    /\ trace.planned # <<>>
    /\ Records("s1")[trace.planned[1]].Version = Version(1, 0, 0, 1)
    /\ StateAtPlanning(trace.planned[1]) = StateFailure

----------------------------------------------------------------------------
(* C22: calls for a service that RegisterService has never set up *)

\* Migrate or Downgrade has just returned
JustReturnedPlanCall ==
    /\ call.op = "idle"
    /\ prev.op \in {"migrate", "downgrade"}
    /\ trace.op = prev.op /\ trace.svc = prev.svc

\* CheckFulfillment has just returned
JustReturnedCheck ==
    call.op = "idle" /\ prev.op = "checkFulfillment" /\ fulfillment.svc = prev.svc

\* RegisterService has never been called for the service: only RegisterService
\* sets the connect hook
NeverSetUp(name) == ~services[name].ConnectFunc

\* C22: Migrate, Downgrade and CheckFulfillment called with a service name for
\* which RegisterService has never been called return a service-not-registered
\* error without invoking any connect hook and without reading or writing any
\* store, whether or not Register was called for that name before.
C22_UnknownService ==
    /\ (JustReturnedPlanCall /\ NeverSetUp(prev.svc)) =>
          /\ trace.result = "err" /\ trace.reason = "service not found"
          /\ conns = <<>>
          /\ store[prev.svc] = trace.before
    /\ (JustReturnedCheck /\ NeverSetUp(prev.svc)) =>
          /\ prev.result = "err" /\ fulfillment.reasonErr = "service not found"

----------------------------------------------------------------------------
(* C23: registering an identifier twice *)

\* the step is the body of Register(name, ...)
RegisterReturns(name) == Inside("register", name) /\ ~Inside("register", name)'

\* the Version and type of a catalog entry
VersionAndType(migration) ==
    <<ParseVersion(migration.Version).version, migration.MigrationType>>

----------------------------------------------------------------------------
(* C24: RegisterService for a known service name *)

\* C24: RegisterService for an already known service name replaces its connect
\* hook, disconnect hook and target version and leaves the catalog entries and
\* the identifier index of the service unchanged; a call whose target version
\* string fails to parse returns an error and changes nothing.
C24_RegisterServiceReplaces ==
    [][\A name \in ServiceNames : \A targetVersion \in Build(host).targets[name] :
          RegisterService(name, targetVersion) =>
             LET parsed == ParseVersion(targetVersion)
             IN IF parsed.err
                THEN prev'.result = "err" /\ services' = services
                ELSE /\ prev'.result = "ok"
                     /\ services'[name].ConnectFunc
                     /\ services'[name].DisconnectFunc
                     /\ services'[name].TargetVersion = parsed.version
                     /\ services'[name].registeredMigrations
                           = services[name].registeredMigrations
                     /\ registeredMigrationsSet(services'[name])
                           = registeredMigrationsSet(services[name])
                     /\ \A other \in ServiceNames \ {name} :
                           services'[other] = services[other]]_vars

\* RegisterService has just returned for a service with a catalog, after a call
\* that set another target version
C24_Witness ==
    /\ prev.op = "registerService" /\ prev.result = "ok"
    /\ services[prev.svc].registeredMigrations # <<>>
    /\ services[prev.svc].ConnectFunc
    /\ Build(host) = HostStepwise
    /\ services[prev.svc].TargetVersion = Version(1, 0, 0, 0)
    /\ store[prev.svc].version = <<Version(1, 0, 0, 1)>>

----------------------------------------------------------------------------
(* C25, C26, C27: models.Version *)

Fields(v) == <<v.Major, v.Minor, v.Patch, v.PreRelease>>

\* v comes before version in the lexicographic order of
\* (major, minor, patch, pre-release)
Lexicographic(v, version) ==
    \E k \in 1..4 :
        /\ \A j \in 1..(k - 1) : Fields(v)[j] = Fields(version)[j]
        /\ Fields(v)[k] < Fields(version)[k]

Compared == versionCase.kind = "order" /\ versionCase.steps = <<"Compare">>

\* exactly one of the three holds
ExactlyOne(p, q, r) ==
    (p \/ q \/ r) /\ ~(p /\ q) /\ ~(p /\ r) /\ ~(q /\ r)

\* C25: for all Versions a, b, c with bounded non-negative components exactly
\* one of LessThan, Equals and MoreThan holds of a pair, the order is the
\* lexicographic order on (major, minor, patch, pre-release), it is transitive,
\* LessOrEqual is the negation of MoreThan and MoreOrEqual the negation of
\* LessThan.
C25_VersionOrder ==
    Compared =>
       LET a == versionCase.a
           b == versionCase.b
           order == versionCase.order
       IN /\ \A pair \in {"ab", "bc", "ac"} :
                /\ ExactlyOne(order[pair].LessThan, order[pair].Equals,
                              order[pair].MoreThan)
                /\ order[pair].LessOrEqual = ~order[pair].MoreThan
                /\ order[pair].MoreOrEqual = ~order[pair].LessThan
          /\ order.ab.LessThan = Lexicographic(a, b)
          /\ order.ab.MoreThan = Lexicographic(b, a)
          /\ order.ab.Equals = (Fields(a) = Fields(b))
          /\ (order.ab.LessThan /\ order.bc.LessThan) => order.ac.LessThan
          /\ (order.ab.LessOrEqual /\ order.bc.LessOrEqual) => order.ac.LessOrEqual
          /\ (order.ab.MoreThan /\ order.bc.MoreThan) => order.ac.MoreThan

\* 0.1.1.1 < 1.0.0.0 < 1.0.0.1 were compared
C25_Witness ==
    /\ Compared
    /\ versionCase.a = Version(0, 1, 1, 1)
    /\ versionCase.b = Version(1, 0, 0, 0)
    /\ versionCase.c = Version(1, 0, 0, 1)
    /\ versionCase.order.ab.LessThan /\ versionCase.order.bc.LessThan
    /\ versionCase.order.ac.LessThan

\* a component is the decimal text of a non-negative integer: digits only, no
\* leading zero
CanonicalComponent(c) ==
    /\ c # <<>>
    /\ \A i \in 1..Len(c) : IsDigit(c[i])
    /\ Len(c) > 1 => c[1] # "0"

Canonical(versionString) ==
    /\ Len(versionString) = 4
    /\ \A i \in 1..4 : CanonicalComponent(versionString[i])

\* C26: for every Version v with non-negative components ParseVersion(v.String())
\* succeeds and returns exactly v, and String of the parsed value of a
\* canonical four part string returns that string.
C26_RoundTrip ==
    /\ (versionCase.kind = "string" /\ versionCase.steps = <<"String", "ParseVersion">>)
          => ~versionCase.parsed.err /\ versionCase.parsed.version = versionCase.a
    /\ (/\ versionCase.kind = "parse"
        /\ versionCase.steps = <<"ParseVersion", "String">>
        /\ Canonical(versionCase.versionString))
          => versionCase.printed = versionCase.versionString

\* 10.0.109.9 was printed and parsed back
C26_Witness ==
    /\ versionCase.kind = "string"
    /\ versionCase.steps = <<"String", "ParseVersion">>
    /\ versionCase.a = Version(10, 0, 109, 9)
    /\ versionCase.printed = <<<<"1", "0">>, <<"0">>, <<"1", "0", "9">>, <<"9">>>>
    /\ versionCase.parsed.version = versionCase.a

\* strconv.Atoi accepts the component: an optional sign and one or more digits
IntegerComponent(c) ==
    LET digits == IF c # <<>> /\ c[1] \in {"+", "-"} THEN Tail(c) ELSE c
    IN digits # <<>> /\ \A i \in 1..Len(digits) : IsDigit(digits[i])

\* C27: ParseVersion returns a parse error for every string that does not
\* split on '.' into exactly four components each parseable as an integer; a
\* string with four components of which one is empty or no integer, such as
\* "1.x.0.0", is rejected and not read as 0.
C27_ParseFailure ==
    (/\ versionCase.kind = "parse" /\ versionCase.steps # <<>>
     /\ \/ Len(versionCase.versionString) # 4
        \/ \E i \in 1..4 : ~IntegerComponent(versionCase.versionString[i]))
       => versionCase.parsed.err

----------------------------------------------------------------------------
(* C28, C29: what the forward plan holds *)

\* a Migrate call got as far as its plan
MigratePlanned ==
    /\ InOrAfterCall
    /\ trace.reason \notin {"service not found", "nil ConnectFunc", "lower version",
                             "save failed"}

\* the saved Version read when the plan was made, 0.0.0.0 without a Version row
SavedVersionAtPlanning ==
    IF SavedAtPlanning = <<>> THEN ZeroVersion ELSE SavedAtPlanning[1]

\* the baseline records of the plan
PlannedBaselines ==
    {i \in RecordIds(trace.svc) :
        InSeq(i, trace.planned) /\ Records(trace.svc)[i].Type = TypeBaseline}

\* C28: a versioned record is in the forward plan iff its state is neither
\* success nor skipped, its Version is <= the target version, its Version is >
\* the saved Version read at planning time (0.0.0.0 when no Version row exists)
\* and, when a baseline was planned in the same call, its Version is >= the
\* planned baseline's Version.
C28_VersionedMembership ==
    MigratePlanned =>
        LET recs == Records(trace.svc)
            target == services[trace.svc].TargetVersion
        IN \A i \in RecordIds(trace.svc) :
              recs[i].Type = TypeVersioned =>
                 (InSeq(i, trace.planned) <=>
                    /\ StateAtPlanning(i) \notin {StateSuccess, StateSkipped}
                    /\ BeforeOrEqual(recs[i].Version, target)
                    /\ Before(SavedVersionAtPlanning, recs[i].Version)
                    /\ \A b \in PlannedBaselines :
                          BeforeOrEqual(recs[b].Version, recs[i].Version))

\* a plan holds a baseline and a versioned record at its Version, and leaves out
\* a versioned record below the baseline that is neither success nor skipped
C28_Witness ==
    /\ MigratePlanned
    /\ \E b \in PlannedBaselines : \E i, j \in RecordIds(trace.svc) :
          /\ Records(trace.svc)[i].Type = TypeVersioned
          /\ InSeq(i, trace.planned)
          /\ Records(trace.svc)[i].Version = Records(trace.svc)[b].Version
          /\ Records(trace.svc)[j].Type = TypeVersioned
          /\ ~InSeq(j, trace.planned)
          /\ StateAtPlanning(j) = StateRegistered
          /\ Before(Records(trace.svc)[j].Version, Records(trace.svc)[b].Version)
          /\ Before(SavedVersionAtPlanning, Records(trace.svc)[j].Version)

\* the baseline records with a Version <= the target version
BaselinesUpToTarget ==
    {i \in RecordIds(trace.svc) :
        /\ Records(trace.svc)[i].Type = TypeBaseline
        /\ BeforeOrEqual(Records(trace.svc)[i].Version,
                         services[trace.svc].TargetVersion)}

\* no baseline record was in state success when the plan was made
NoBaselineSucceeded ==
    \A i \in RecordIds(trace.svc) :
        Records(trace.svc)[i].Type = TypeBaseline => StateAtPlanning(i) # StateSuccess

\* C29: a baseline is planned iff no persisted baseline record is in state
\* success and some persisted baseline record has Version <= target; the planned
\* one is the baseline record with the greatest Version among those <= target,
\* at most one baseline is planned per call, and when none qualifies the plan
\* contains no baseline and planning continues.
C29_BaselinePass ==
    MigratePlanned =>
        /\ PlannedBaselines # {} <=> (NoBaselineSucceeded /\ BaselinesUpToTarget # {})
        /\ \A b \in PlannedBaselines :
              /\ b \in BaselinesUpToTarget
              /\ \A q \in BaselinesUpToTarget :
                    BeforeOrEqual(Records(trace.svc)[q].Version,
                                  Records(trace.svc)[b].Version)
        /\ Cardinality({k \in 1..Len(trace.planned) :
                           Records(trace.svc)[trace.planned[k]].Type = TypeBaseline}) <= 1

\* with baselines 1.0.0.0 and 1.0.1.0 persisted and none in state success, the
\* plan made for target 1.1.0.0 holds the baseline 1.0.1.0 and not 1.0.0.0
C29_Witness ==
    /\ MigratePlanned
    /\ Cardinality(BaselinesUpToTarget) = 2
    /\ NoBaselineSucceeded
    /\ \E b \in PlannedBaselines : Records(trace.svc)[b].Version = Version(1, 0, 1, 0)
    /\ \E i \in RecordIds(trace.svc) :
          /\ Records(trace.svc)[i].Type = TypeBaseline
          /\ Records(trace.svc)[i].Version = Version(1, 0, 0, 0)
          /\ StateAtPlanning(i) = StateFailure

----------------------------------------------------------------------------
(* C30: the saved Version after an undo *)

\* the step is a round of the loop of Downgrade that undid the record at the
\* head of the plan
Undoes ==
    /\ call.op = "downgrade" /\ call.plan # <<>>
    /\ call'.op = "downgrade" /\ call'.plan = Tail(call.plan)

\* the versioned records of the history below the Version v
VersionedBelow(name, v) ==
    {i \in RecordIds(name) :
        Records(name)[i].Type = TypeVersioned /\ Before(Records(name)[i].Version, v)}

\* the Version of the next-lower versioned record, 0.0.0.0 when there is none
NextLowerVersion(name, v) ==
    IF VersionedBelow(name, v) = {} THEN ZeroVersion
    ELSE LET i == CHOOSE i \in VersionedBelow(name, v) :
                     \A j \in VersionedBelow(name, v) :
                         BeforeOrEqual(Records(name)[j].Version, Records(name)[i].Version)
         IN Records(name)[i].Version

\* C30: after each successful undo of a versioned record R the saved Version is
\* overwritten with the Version of the next-lower versioned record of the
\* persisted history (repeatable and baseline records do not count), or with
\* 0.0.0.0 when no versioned record lies below R.
C30_VersionAfterUndo ==
    [][Undoes =>
          store'[call.svc].version =
             <<NextLowerVersion(call.svc, Head(call.plan).Version)>>]_vars

\* the history of the service holds a baseline record
HasBaseline(name) ==
    \E i \in RecordIds(name) : Records(name)[i].Type = TypeBaseline

\* C30 for histories without a baseline record
C30_VersionAfterUndoNoBaseline ==
    [][(Undoes /\ ~HasBaseline(call.svc)) =>
          store'[call.svc].version =
             <<NextLowerVersion(call.svc, Head(call.plan).Version)>>]_vars


(* ---------------------------------------------------------------------- *)
(* C31: dependency violations and the forward action                       *)
(* ---------------------------------------------------------------------- *)

\* the positions of the next entry's dependencies that fail validation
Violations ==
    {d \in 1..Len(NextEntry.Dependency) :
        ~DependencySatisfied(NextEntry.Dependency[d])}

\* C31: whenever the validation of any declared dependency of a migration
\* fails, whatever its position among the dependencies, the forward action of
\* the migration is not executed in that attempt: the step invokes nothing,
\* the list of executed records does not grow and the service's data is left
\* as it was.
C31_ViolationBeforeExecution ==
    [][(AtLoop /\ NextFound /\ Violations # {}) =>
         (/\ ~trace'.step.invoked
          /\ trace'.step.err
          /\ trace'.executed = trace.executed
          /\ store'[call.svc].data = store[call.svc].data)
      ]_vars

\* a step has just failed on the second dependency of an entry whose first
\* dependency is satisfied
C31_Witness ==
    /\ trace.op = "migrate"
    /\ trace.step # <<>>
    /\ trace.step.found
    /\ trace.step.err
    /\ ~trace.step.validated
    /\ ~trace.step.invoked
    /\ \E e \in EntriesOf(trace.svc, Records(trace.svc)[trace.step.Id]) :
         LET entry == Catalog(trace.svc)[e] IN
         /\ ~actionModalityInvalid(entry)
         /\ Len(entry.Dependency) > 1
         /\ DependencySatisfied(entry.Dependency[1])
         /\ ~DependencySatisfied(entry.Dependency[2])

----------------------------------------------------------------------------
(* C32: atomic reconciliation *)

\* the identities (Version, type) that a reconciliation of the service stages
StagedIdentities(name) ==
    {<<EntryVersion(Catalog(name)[e]), Catalog(name)[e].MigrationType>> :
        e \in Unpersisted(name)}

\* the identities of the records that the step has added to the service's store
AddedIdentities(name) ==
    {<<store'[name].migrations[i].Version, store'[name].migrations[i].Type>> :
        i \in (Len(store[name].migrations) + 1)..Len(store'[name].migrations)}

\* C32: the records staged by one reconciliation are persisted all or none; when
\* the save of a staged record fails, Migrate or Downgrade returns the error, no
\* staged record remains persisted, no plan is built and no action is executed.
C32_AtomicReconciliation ==
    [][(AtBegin /\ trace' # trace /\ trace'.op \in {"migrate", "downgrade"}) =>
         (/\ \/ AddedIdentities(trace'.svc) = {}
             \/ AddedIdentities(trace'.svc) = StagedIdentities(trace'.svc)
          /\ trace'.reason = "save failed" =>
                /\ trace'.result = "err"
                /\ prev'.result = "err"
                /\ store'[trace'.svc].migrations = store[trace'.svc].migrations
                /\ store'[trace'.svc].version = store[trace'.svc].version
                /\ store'[trace'.svc].data = store[trace'.svc].data
                /\ call' = Idle
                /\ trace'.planned = <<>>
                /\ trace'.executed = <<>>)
      ]_vars

\* Migrate has just returned the error of a save in a reconciliation that staged
\* two records, after an earlier reconciliation that persisted one
C32_Witness ==
    /\ JustReturnedPlanCall /\ trace.op = "migrate"
    /\ trace.result = "err" /\ trace.reason = "save failed"
    /\ Cardinality(StagedIdentities(trace.svc)) = 2
    /\ Records(trace.svc) # <<>>
    /\ Records(trace.svc) = trace.before.migrations

\* Downgrade has just returned the error of a save in its reconciliation
C32_WitnessDowngrade ==
    /\ JustReturnedPlanCall /\ trace.op = "downgrade"
    /\ trace.result = "err" /\ trace.reason = "save failed"
    /\ StagedIdentities(trace.svc) # {}
    /\ Records(trace.svc) = trace.before.migrations

----------------------------------------------------------------------------
(* C33: ranks *)

\* the greatest rank among the persisted records of a service, 0 without records
GreatestRank(name) ==
    IF Records(name) = <<>> THEN 0
    ELSE CHOOSE k \in {Records(name)[i].Rank : i \in RecordIds(name)} :
            \A i \in RecordIds(name) : Records(name)[i].Rank <= k

RanksDistinct(name) ==
    \A i, j \in RecordIds(name) :
        i # j => Records(name)[i].Rank # Records(name)[j].Rank

RanksFollowVersions(name) ==
    \A i, j \in RecordIds(name) :
        Records(name)[i].Rank < Records(name)[j].Rank =>
            BeforeOrEqual(Records(name)[i].Version, Records(name)[j].Version)

\* the k-th record that the step adds has rank maxRank + k, and the added records
\* are in ascending Version order
RanksAssignedInOrder(name) ==
    LET old == Len(store[name].migrations)
        new == Len(store'[name].migrations)
    IN /\ \A i \in 1..old : store'[name].migrations[i].Rank = store[name].migrations[i].Rank
       /\ \A k \in 1..(new - old) :
             store'[name].migrations[old + k].Rank = GreatestRank(name) + k
       /\ \A k, l \in 1..(new - old) :
             k < l => BeforeOrEqual(store'[name].migrations[old + k].Version,
                                    store'[name].migrations[old + l].Version)

\* C33: in every reachable state the ranks of one service's persisted records are
\* pairwise distinct and a lower rank implies a lower or equal Version, and every
\* reconciliation assigns its new records the ranks maxRank+1, maxRank+2, ... in
\* ascending Version order.
C33_RankInvariant ==
    /\ [](\A name \in ServiceNames : RanksDistinct(name) /\ RanksFollowVersions(name))
    /\ [][\A name \in ServiceNames : RanksAssignedInOrder(name)]_vars

\* a second reconciliation has added two records with distinct Versions on top
\* of persisted ones
C33_Witness ==
    /\ InOrAfterCall /\ trace.before.migrations # <<>>
    /\ Len(Records(trace.svc)) >= Len(trace.before.migrations) + 2
    /\ Records(trace.svc)[Len(Records(trace.svc))].Version
          # Records(trace.svc)[Len(Records(trace.svc)) - 1].Version

----------------------------------------------------------------------------
(* C34: one persisted record per identity *)

\* the persisted records of the service with the identity of the catalog entry
RecordsOf(name, e) ==
    {i \in RecordIds(name) : e \in EntriesOf(name, Records(name)[i])}

IdentitiesDistinct(name) ==
    \A i, j \in RecordIds(name) :
        i # j => <<Records(name)[i].Version, Records(name)[i].Type>>
                    # <<Records(name)[j].Version, Records(name)[j].Type>>

\* a reconciliation of the service has succeeded and its call has not returned
Reconciled(name) == call.op \in {"migrate", "downgrade"} /\ call.svc = name

\* C34: in every reachable state no two persisted records of a service have the
\* same (Version, type) identity, and after a successful reconciliation every
\* catalog entry has exactly one persisted record with its identifier.
C34_UniqueIdentity ==
    \A name \in ServiceNames :
        /\ IdentitiesDistinct(name)
        /\ Reconciled(name) =>
              \A e \in 1..Len(Catalog(name)) : Cardinality(RecordsOf(name, e)) = 1

\* a later reconciliation has added records for new catalog entries to a store
\* that held records of other entries of the catalog
C34_Witness ==
    /\ call.op \in {"migrate", "downgrade"}
    /\ trace.before.migrations # <<>>
    /\ Len(Records(call.svc)) > Len(trace.before.migrations)
    /\ Len(Catalog(call.svc)) = Len(Records(call.svc))

----------------------------------------------------------------------------
(* C35: the saved Version during Migrate *)

\* the step of Migrate replaces the row of the version table of its service
Overwrites ==
    /\ call.op = "migrate"
    /\ store[call.svc].version # <<>>
    /\ store'[call.svc].version # <<>>
    /\ store'[call.svc].version # store[call.svc].version

\* C35: within a Migrate call every overwrite of the Version record writes a
\* Version greater than or equal to the value it replaces.
C35_VersionMonotone ==
    [][Overwrites => BeforeOrEqual(store[call.svc].version[1],
                                   store'[call.svc].version[1])]_vars
\* a call has replaced the saved Version by a higher one through a baseline that
\* was registered after the first Version had been saved
C35_Witness ==
    /\ InOrAfterCall
    /\ trace.before.version # <<>>
    /\ store[trace.svc].version # <<>>
    /\ Before(trace.before.version[1], store[trace.svc].version[1])
    /\ \E i \in RecordIds(trace.svc) :
          /\ Records(trace.svc)[i].Type = TypeBaseline
          /\ InSeq(i, trace.executed)
          /\ i > Len(trace.before.migrations)

----------------------------------------------------------------------------
(* C36: the first run of a repeatable *)

\* the repeatable records that the reconciliation of the current call created
\* and whose catalog entry exists
NewRepeatables ==
    {i \in RecordIds(trace.svc) :
        /\ i > Len(trace.before.migrations)
        /\ Records(trace.svc)[i].Type = TypeRepeatable
        /\ EntriesOf(trace.svc, Records(trace.svc)[i]) # {}}

\* C36: a repeatable record that the reconciliation of the current Migrate call
\* created and whose catalog entry exists is placed in the plan of that call,
\* and a call that returns success has executed it, also when the entry has no
\* checksumFn and is not repeatUnconditional.
C36_FirstRunOfRepeatable ==
    InOrAfterCall =>
        \A i \in NewRepeatables :
            /\ InSeq(i, trace.planned)
            /\ (JustReturned /\ trace.result = "ok") => InSeq(i, trace.executed)

\* the same for the entries that declare a checksumFn or are repeatUnconditional
C36_FirstRunWithChecksumFn ==
    InOrAfterCall =>
        \A i \in NewRepeatables :
            (\E e \in EntriesOf(trace.svc, Records(trace.svc)[i]) :
                \/ Catalog(trace.svc)[e].CheckSum # "nil"
                \/ Catalog(trace.svc)[e].RepeatUnconditional) =>
              /\ InSeq(i, trace.planned)
              /\ (JustReturned /\ trace.result = "ok") => InSeq(i, trace.executed)

----------------------------------------------------------------------------
(* C37: CheckFulfillment right after a successful Migrate *)

\* the target is at or above every catalog entry and every persisted record, and
\* every persisted record has a catalog entry
TargetCoversAll(name) ==
    /\ \A e \in 1..Len(Catalog(name)) :
          BeforeOrEqual(EntryVersion(Catalog(name)[e]), services[name].TargetVersion)
    /\ \A i \in RecordIds(name) :
          /\ BeforeOrEqual(Records(name)[i].Version, services[name].TargetVersion)
          /\ EntriesOf(name, Records(name)[i]) # {}

\* the step is the CheckFulfillment call that follows a successful Migrate of the
\* same service with nothing in between
ChecksAfterSuccess ==
    /\ JustReturned /\ trace.result = "ok"
    /\ prev'.op = "checkFulfillment" /\ prev'.svc = trace.svc

\* C37: when Migrate(s) has returned success, the target is at or above every
\* catalog entry and persisted record and every record has a catalog entry, a
\* CheckFulfillment(s) issued immediately afterwards reports fully satisfied:
\* ok, no reason, no error.
C37_SuccessImpliesFulfillment ==
    [][(ChecksAfterSuccess /\ TargetCoversAll(trace.svc)) =>
         (/\ fulfillment'.ok
          /\ fulfillment'.reasonErr = "nil"
          /\ ~fulfillment'.err)]_vars

----------------------------------------------------------------------------
(* C38: Downgrade and Migrate back *)

\* Migrate has just returned nil at the end of a round trip: a Migrate to this
\* target that returned nil, RegisterService with a lower target, a Downgrade
\* that returned nil, RegisterService with the first target, this Migrate
RoundTripDone ==
    /\ JustReturned /\ trace.result = "ok"
    /\ trace.prior.op = "downgrade"
    /\ trace.prior.target = services[trace.svc].TargetVersion
    /\ Before(trace.prior.lower, trace.prior.target)

\* C38: from a state reached by a successful Migrate to target T, a successful
\* Downgrade to a lower target followed by RegisterService with target T and a
\* successful Migrate puts every record that the Downgrade undid back in state
\* success and restores the saved Version to its value before the Downgrade.
C38_RoundTrip ==
    RoundTripDone =>
        /\ \A k \in 1..Len(trace.prior.undone) :
              Records(trace.svc)[trace.prior.undone[k]].State = StateSuccess
        /\ store[trace.svc].version = trace.prior.version

\* the same for histories in which no baseline has the Version of a versioned
\* record
C38_RoundTripDistinctVersions ==
    (/\ RoundTripDone
     /\ \A i, j \in RecordIds(trace.svc) :
           (Records(trace.svc)[i].Type = TypeBaseline
              /\ Records(trace.svc)[j].Type = TypeVersioned)
           => Records(trace.svc)[i].Version # Records(trace.svc)[j].Version) =>
        /\ \A k \in 1..Len(trace.prior.undone) :
              Records(trace.svc)[trace.prior.undone[k]].State = StateSuccess
        /\ store[trace.svc].version = trace.prior.version
----------------------------------------------------------------------------
(* C39: the stores of the other services during Migrate and Downgrade *)

\* what the manager keeps in a store: the two system tables and their rows
Persisted(name) ==
    <<store[name].versionTable, store[name].migrationsTable,
      store[name].version, store[name].migrations>>

\* a Migrate or a Downgrade of the service holds the mutex
EngineInside(name) == Inside("migrate", name) \/ Inside("downgrade", name)

\* C39: no step taken while Migrate(A) or Downgrade(A) is running (reconciliation,
\* planning, validation of dependencies, saving of states and of the Version)
\* creates, updates or deletes a persisted record or the saved Version of
\* another service B, a dependency included: the store of B is only read.
C39_CrossServiceFrame ==
    [][\A A \in ServiceNames : \A B \in ServiceNames \ {A} :
          EngineInside(A) => Persisted(B)' = Persisted(B)]_vars

\* a Migrate has validated a dependency on another service whose store holds
\* records and a Version, and has then saved the state of the migration
C39_Witness ==
    /\ trace.op = "migrate" /\ trace.step # <<>>
    /\ trace.step.found /\ trace.step.validated
    /\ Records(trace.svc)[trace.step.Id].State = StateSuccess
    /\ \E i \in EntriesOf(trace.svc, Records(trace.svc)[trace.step.Id]) :
          \E k \in 1..Len(Catalog(trace.svc)[i].Dependency) :
             LET dependency == Catalog(trace.svc)[i].Dependency[k]
             IN /\ dependency.Name # trace.svc
                /\ Records(dependency.Name) # <<>>
                /\ store[dependency.Name].version # <<>>
====
